---- MODULE Spec2Model ----
(***************************************************************************)
(* AISkiCoach backend: the device-calibration endpoint and the IMU         *)
(* auto-calibration it calls, the turn extractor and the metrics mapping,  *)
(* the verification-code service and its send-code endpoint, the           *)
(* authentication of requests, the rate limiter, the skiing-session and    *)
(* device routes, the session cache and the batch ingest routes.           *)
(*                                                                         *)
(* The specifications share one set of variables:                          *)
(*   Spec         two concurrent start_device_calibration requests         *)
(*   SpecBatch    one calibration request over every bounded sample batch  *)
(*   SpecTurn     the turn extractor over a bounded yaw-rate stream        *)
(*   SpecMetrics  compute_metrics_from_raw_data                            *)
(*   SpecVC       VerificationCodeService over a key-value store with TTL  *)
(*   SpecRate     check_rate_limit and send-code for one phone             *)
(*   SpecSend     the send-code endpoint over every phone text             *)
(*   SpecAuth     logins, session invalidation and get_current_user        *)
(*   SpecMemory   InMemoryRateLimiter                                      *)
(*   SpecLimiter  RateLimiter with Redis and the in-memory fallback        *)
(*   SpecBoth     one request decided by both paths of RateLimiter         *)
(*   SpecRace     concurrent verify_code calls, statement by statement     *)
(*   SpecSki      start_session and finish_session                         *)
(*   SpecDev      bind, unbind and set-primary, one request at a time      *)
(*   SpecDevRace  the same requests with their transactions interleaved    *)
(*   SpecAccess   the device routes that require a binding                 *)
(*   SpecCache    SessionRepository and SessionCache                       *)
(*   SpecIngest   the four batch ingest routes                             *)
(***************************************************************************)
EXTENDS Integers, Sequences, FiniteSets, TLC

None == "None"

\* ------------------------------------------------------------------------
\* Bounds of the model
\* ------------------------------------------------------------------------
\* longest sample batch, in segments of like samples
MaxSegments == 2

\* longest yaw-rate stream, in samples
MaxStream == 8

\* latest start_time and end_time of a skiing session, in seconds
MaxSkiTime == 2

\* most user_devices rows
MaxRows == 4

\* most samples of one batch: stands for the 5000 of the ingest routes
MaxSamples == 2

\* most batch requests
MaxIngests == 1

\* most turns in one ski session, and most segments they are spread over
MaxTurns == 2

MaxSkiSegments == 2

\* the clock stops at MaxTime seconds and moves TickSeconds at a time; the
\* service is called at most MaxCalls times
MaxTime == 600

TickSeconds == 150

MaxCalls == 5

\* the rate limit is called at most MaxChecks times and the send-code endpoint
\* with any phone text at most MaxSends times, on a clock that moves SendTick
\* seconds at a time up to MaxSendTime
MaxChecks == 7

MaxSends == 4

SendTick == 40

MaxSendTime == 80

\* at most MaxLogins logins through AuthService and MaxRequests requests to
\* protected endpoints
MaxLogins == 2

MaxRequests == 3

\* the limiter's clock stops at MaxClock seconds and moves 1..MaxStep seconds
\* with each call; callers pass a limit in 1..MaxLimit and a window of
\* WindowSeconds; check_multiple gets up to MaxKeys keys
MaxClock == 6

\* the clock of the limiter with its Redis backend stops at MaxLimiterClock
MaxLimiterClock == 3

MaxStep == 4

MaxLimit == 2

WindowSeconds == 3

MaxKeys == 2

\* ------------------------------------------------------------------------
\* Sample batches
\* ------------------------------------------------------------------------
\* A batch is the run-length encoding of the rows of calibration_data.data:
\* a sequence of segments [kind, len], no two neighbours of the same kind.
\*   "static"   device at rest: gyro magnitude ~ 0, no rotational energy
\*   "rotation" rotation about one dominant axis (dominance above threshold)
\*   "mixed"    rotation energy spread over several axes (dominance below)
SegmentKinds == {"static", "rotation", "mixed"}

SegmentLens == {50, 100, 200, 300}

Segments == [kind : SegmentKinds, len : SegmentLens]

RECURSIVE BatchesOfLen(_)
BatchesOfLen(n) ==
    IF n = 0 THEN {<<>>}
    ELSE {Append(b, s) : b \in BatchesOfLen(n - 1), s \in Segments}

WellFormedBatch(b) ==
    \A i \in 1..(Len(b) - 1) : b[i].kind # b[i + 1].kind

Batches ==
    {b \in UNION {BatchesOfLen(n) : n \in 1..MaxSegments} : WellFormedBatch(b)}

RECURSIVE SumLens(_, _)
SumLens(b, k) == IF k = 0 THEN 0 ELSE SumLens(b, k - 1) + b[k].len

\* len(data): the number of rows
TotalSamples(b) == SumLens(b, Len(b))

\* index of the first sample of segment i
SegStart(b, i) == SumLens(b, i - 1)

\* ------------------------------------------------------------------------
\* imu_calibration.auto_calibrate_imu  (precompiled module; modelled from the
\* design: window segmenter, estimators, result assembler)
\* ------------------------------------------------------------------------
FailureReasons ==
    {"static_window_not_found", "rotation_window_not_found",
     "purity_below_threshold", "degenerate_rotation"}

\* rotational energy of a window of like samples: zero when at rest
Energy(kind) == IF kind = "static" THEN 0 ELSE 1

\* single-axis dominance of a window of like samples, in percent
Dominance(kind) ==
    CASE kind = "rotation" -> 95
      [] kind = "mixed"    -> 60
      [] OTHER             -> 0

\* the static window: the first static_window_size samples of the first
\* segment at rest that is long enough; <<>> when there is none
StaticWindow(b, static_window_size) ==
    LET ok == {i \in 1..Len(b) :
                 b[i].kind = "static" /\ b[i].len >= static_window_size}
    IN IF ok = {} THEN <<>>
       ELSE LET i == CHOOSE k \in ok : \A j \in ok : k <= j
            IN <<SegStart(b, i), SegStart(b, i) + static_window_size>>

\* windows of rotation_window_size like samples that leave the static window
\* alone: the start of each segment, or of what the static window left of it
RotationCandidates(b, rotation_window_size, st) ==
    LET free(i) == IF SegStart(b, i) = st[1] THEN st[2] ELSE SegStart(b, i)
        stop(i) == SegStart(b, i) + b[i].len
    IN {[start |-> free(i), stop |-> free(i) + rotation_window_size,
         kind |-> b[i].kind] :
          i \in {k \in 1..Len(b) : stop(k) - free(k) >= rotation_window_size}}

Failure(reason) ==
    [raised |-> FALSE, success |-> FALSE, error |-> reason, purity |-> <<>>,
     static_slice |-> <<>>, rotation_slice |-> <<>>]

Raise(text) ==
    [raised |-> TRUE, success |-> FALSE, error |-> text, purity |-> <<>>,
     static_slice |-> <<>>, rotation_slice |-> <<>>]

Success(st, rot) ==
    [raised |-> FALSE, success |-> TRUE, error |-> "",
     purity |-> <<Dominance(rot.kind)>>,
     static_slice |-> st, rotation_slice |-> <<rot.start, rot.stop>>]

\* (success, result | error_message); raises only on empty input
auto_calibrate_imu(b, static_window_size, rotation_window_size, rotation_purity_threshold) ==
    LET n == TotalSamples(b)
        st == StaticWindow(b, static_window_size)
        cands == RotationCandidates(b, rotation_window_size, st)
        pure == {c \in cands : Energy(c.kind) > 0
                     /\ Dominance(c.kind) >= rotation_purity_threshold}
    IN IF n = 0 THEN Raise("empty input")
       ELSE IF n < static_window_size + rotation_window_size
         THEN Failure(IF n < static_window_size
                      THEN "static_window_not_found"
                      ELSE "rotation_window_not_found")
       ELSE IF st = <<>> THEN Failure("static_window_not_found")
       ELSE IF cands = {} THEN Failure("rotation_window_not_found")
       ELSE IF \A c \in cands : Energy(c.kind) = 0
         THEN Failure("degenerate_rotation")
       ELSE IF pure = {} THEN Failure("purity_below_threshold")
       ELSE Success(st, CHOOSE c \in pure : \A d \in pure : c.start <= d.start)

\* ------------------------------------------------------------------------
\* State
\* ------------------------------------------------------------------------
VARIABLES
    \* devices.py: the calibration endpoint
    moduleAvailable,    \* imu_calibration was imported (is not None)
    bindings,           \* user_devices rows: <<user, device>>
    calibrations,       \* committed device_calibrations rows
    calibrationSamples, \* committed device_calibration_samples, per calibration
    pc,                 \* where each request is in start_device_calibration
    request,            \* the request each handler was called with
    pending,            \* the row each handler's transaction has flushed
    response,           \* the response each request got
    \* ski_compute: the turn extractor
    yaw,                \* the yaw-rate samples read so far
    filtered,           \* the low-pass filter's output for each of them
    turnState,          \* "CRUISING" or "IN_TURN"
    turnStart,          \* index of the sample that began the turn in progress
    turns,              \* the Turn Records emitted so far
    \* metrics_compute.py
    metricsCall,        \* the call of compute_metrics_from_raw_data and its data
    metricsReturn,      \* what the call returned or raised
    skiingMetrics,      \* committed skiing_metrics rows
    \* verification_code.py
    now,                \* the clock, in seconds
    store,              \* the key-value store: key -> value and expiry
    calls,              \* calls of the service so far
    lastCall,           \* the latest call and its result
    compared,           \* per phone, guesses compared with the code now stored
    consumed,           \* per phone, the code now stored has verified once
    backend,            \* "redis" or "mock": what _init_redis returned
    window,             \* per phone, the running rate-limit window
    sms,                \* short messages sent so far
    \* deps.py, user_sessions.py, auth/repository.py
    accounts,           \* users rows: is_active of each user
    userSessions,       \* user_sessions rows, by id
    issued,             \* the claims of the access tokens issued so far
    agedOut,            \* the issued tokens whose exp has passed
    requests,           \* requests to protected endpoints so far
    lastRequest,        \* the latest of them and its answer
    \* rate_limiter.py
    clock,              \* time.time(), in seconds
    limit,              \* the limit the callers pass
    memory,             \* InMemoryRateLimiter.data: key -> timestamps
    zsets,              \* the Redis sorted sets: key -> scores
    use_redis,          \* RateLimiter.use_redis
    history,            \* per key, the calls since its history was empty
    fresh,              \* per key, reset was called and no check since
    lastCheck,          \* the latest call of the limiter and its result
    \* verification_code.py: verify_code calls in progress
    verifying,          \* per caller, the call between its GET and its write
    granted,            \* per phone, the True results of its code
    wrong,              \* per phone, the wrong guesses compared with its code
    \* sessions.py
    skiSessions,        \* skiing_sessions rows, by id
    finished,           \* per session, the finish requests that succeeded
    lastSki,            \* the latest session request and its answer
    \* devices.py: bindings and device status
    userDevices,        \* user_devices rows, with id and is_primary
    deviceStatus,       \* devices rows: connection_status of each device
    tx,                 \* per request, its database transaction in progress
    lastDev,            \* the latest device request and its answer
    \* domains/auth: the session repository and its cache
    sessionRows,        \* user_sessions rows, by id
    sessionCache,       \* Redis keys session:<id>, by id
    lastInvalidate,     \* the latest invalidation and who called it
    \* ingest_*.py: the batch endpoints
    ingestRows,         \* imu_data, gps_data, barometer_data, skiing_metrics rows
    ingests,            \* batch requests made so far
    lastIngest          \* the latest batch request and its answer

calVars == <<moduleAvailable, bindings, calibrations, calibrationSamples, pc,
             request, pending, response>>

turnVars == <<yaw, filtered, turnState, turnStart, turns>>

metVars == <<metricsCall, metricsReturn, skiingMetrics>>

vcVars == <<now, store, calls, lastCall, compared, consumed, backend, window,
            sms>>

authVars == <<accounts, userSessions, issued, agedOut, requests, lastRequest>>

rlVars == <<clock, limit, memory, zsets, use_redis, history, fresh, lastCheck>>

raceVars == <<verifying, granted, wrong>>

skiVars == <<skiSessions, finished, lastSki>>

devVars == <<userDevices, deviceStatus, tx, lastDev>>

cacheVars == <<sessionRows, sessionCache, lastInvalidate>>

ingVars == <<ingestRows, ingests, lastIngest>>

vars == <<calVars, turnVars, metVars, vcVars, authVars, rlVars,
    raceVars,
    skiVars,
    devVars,
    cacheVars,
    ingVars>>

\* what the actions of one part leave alone
notIngVars == <<calVars, turnVars, metVars, vcVars, authVars, rlVars,
    raceVars, skiVars, devVars, cacheVars>>

notCacheVars == <<calVars, turnVars, metVars, vcVars, authVars, rlVars,
    raceVars, skiVars, devVars,
    ingVars>>

notDevVars == <<calVars, turnVars, metVars, vcVars, authVars, rlVars,
    raceVars, skiVars,
    cacheVars,
    ingVars>>

notSkiVars == <<calVars, turnVars, metVars, vcVars, authVars, rlVars,
    raceVars,
    devVars,
    cacheVars,
    ingVars>>

notRaceVars == <<calVars, turnVars, metVars, authVars, rlVars,
    skiVars,
    devVars,
    cacheVars,
    ingVars>>

notCalVars == <<turnVars, metVars, vcVars, authVars, rlVars,
    raceVars,
    skiVars,
    devVars,
    cacheVars,
    ingVars>>

notTurnVars == <<calVars, metVars, vcVars, authVars, rlVars,
    raceVars,
    skiVars,
    devVars,
    cacheVars,
    ingVars>>

notMetVars == <<calVars, turnVars, vcVars, authVars, rlVars,
    raceVars,
    skiVars,
    devVars,
    cacheVars,
    ingVars>>

notVcVars == <<calVars, turnVars, metVars, authVars, rlVars,
    raceVars,
    skiVars,
    devVars,
    cacheVars,
    ingVars>>

notAuthVars == <<calVars, turnVars, metVars, vcVars, rlVars,
    raceVars,
    skiVars,
    devVars,
    cacheVars,
    ingVars>>

notRlVars == <<calVars, turnVars, metVars, vcVars, authVars,
    raceVars,
    skiVars,
    devVars,
    cacheVars,
    ingVars>>

\* the state of a subsystem no request has reached
TurnIdle ==
    /\ yaw = <<>> /\ filtered = <<>> /\ turnState = "CRUISING"
    /\ turnStart = 0 /\ turns = <<>>

MetricsIdle ==
    /\ metricsCall = <<>> /\ metricsReturn = <<>> /\ skiingMetrics = <<>>

CodesIdle ==
    /\ now = 0 /\ store = <<>> /\ calls = 0 /\ lastCall = <<>>
    /\ compared = <<>> /\ consumed = <<>>
    /\ backend = "redis" /\ window = <<>> /\ sms = 0

AuthIdle ==
    /\ accounts = <<>> /\ userSessions = <<>> /\ issued = {} /\ agedOut = {}
    /\ requests = 0 /\ lastRequest = <<>>

RaceIdle == verifying = <<>> /\ granted = <<>> /\ wrong = <<>>

SkiIdle == skiSessions = <<>> /\ finished = <<>> /\ lastSki = <<>>

DevIdle ==
    /\ userDevices = {} /\ deviceStatus = <<>> /\ tx = <<>> /\ lastDev = <<>>

IngestIdle ==
    /\ ingestRows = {} /\ ingests = 0 /\ lastIngest = <<>>

CacheIdle ==
    /\ sessionRows = <<>> /\ sessionCache = <<>> /\ lastInvalidate = <<>>

LimiterIdle ==
    /\ clock = 0 /\ limit = 1 /\ memory = <<>> /\ zsets = <<>>
    /\ use_redis = FALSE /\ history = <<>> /\ fresh = <<>>
    /\ lastCheck = <<>>

\* ------------------------------------------------------------------------
\* start_device_calibration
\* ------------------------------------------------------------------------
Requests == {"r1", "r2"}

Users == {"u1", "u2"}

\* rows of the devices table, and a device_id that names none
Devices == {"d1", "d2"}

DeviceIds == Devices \cup {"d9"}

\* request.calibration_data, by what the handler looks at:
\*   shape  "none"    None, or an empty object or list
\*          "list"    a list of objects, not an object
\*          "nokeys"  an object without 'meta' or without 'data'
\*          "nodata"  'data' is no list, or is empty
\*          "badrow"  some row is no list of 7 fields
\*          "ok"      every row is a list of 7 fields
\*   numeric      float() accepts every field of every row
\*   sample_rate  meta's sample_rate: absent, a number, or other text
\*   batch        the rows
PayloadShapes == {"none", "list", "nokeys", "nodata", "badrow", "ok"}

SampleRates == {"absent", "number", "text"}

BadPayload(shape) ==
    [shape |-> shape, numeric |-> TRUE, sample_rate |-> "absent",
     batch |-> <<>>]

Payloads(batches) ==
    {BadPayload(s) : s \in PayloadShapes \ {"ok"}}
      \cup [shape : {"ok"}, numeric : BOOLEAN, sample_rate : SampleRates,
            batch : batches]

\* one batch for each way the calibration can end
SomeBatches ==
    {<<[kind |-> "static", len |-> 100], [kind |-> "rotation", len |-> 200]>>,
     <<[kind |-> "static", len |-> 100], [kind |-> "mixed", len |-> 200]>>,
     <<[kind |-> "rotation", len |-> 300]>>,
     <<[kind |-> "static", len |-> 300]>>,
     <<[kind |-> "static", len |-> 200], [kind |-> "rotation", len |-> 100]>>,
     <<[kind |-> "static", len |-> 50]>>,
     <<[kind |-> "static", len |-> 100], [kind |-> "rotation", len |-> 100]>>}

Inputs(batches) ==
    [user : Users, device_id : DeviceIds, data : Payloads(batches)]

\* Decimal(str(meta.get('sample_rate', 0)))
SampleRateDecimal(sample_rate) ==
    IF sample_rate = "absent" THEN "0" ELSE "rate"

\* str(result) on a reported failure; the f-string around str(e) on a raise
ReturnedReason(result) == <<"", result>>

RaisedReason(text) == <<"calibration raised: ", text>>

\* DeviceCalibration(...) with calibration_status="in_progress"
NewCalibration(r, in) ==
    [id |-> r, user_id |-> in.user, device_id |-> in.device_id,
     calibration_status |-> "in_progress",
     static_window_size |-> 100, rotation_window_size |-> 200,
     rotation_purity_threshold |-> 80,
     total_samples |-> TotalSamples(in.data.batch),
     sample_rate |-> SampleRateDecimal(in.data.sample_rate),
     samples |-> in.data.batch,
     rotation_matrix |-> FALSE, installation_angles |-> FALSE,
     purity |-> <<>>, static_window |-> <<>>, rotation_window |-> <<>>,
     completed_at |-> FALSE, acc_offset |-> FALSE,
     failure_reason |-> <<>>]

\* the status the handler answers with before it stores anything, 0 if none
Rejection(in, bound) ==
    CASE in.device_id \notin Devices              -> 404
      [] <<in.user, in.device_id>> \notin bound   -> 403
      [] in.data.shape # "ok"                     -> 400
      [] ~in.data.numeric                         -> 500
      [] in.data.sample_rate = "text"             -> 500
      [] OTHER                                    -> 0

\* the handler up to the second flush: look the device and the binding up,
\* validate, convert, and add the record and its samples to the transaction
Receive(r, batches) ==
    /\ pc[r] = "idle"
    /\ \E in \in Inputs(batches) :
         /\ request' = [request EXCEPT ![r] = <<in>>]
         /\ IF Rejection(in, bindings) # 0
              THEN /\ pc' = [pc EXCEPT ![r] = "done"]
                   /\ response' = [response EXCEPT
                         ![r] = <<Rejection(in, bindings)>>]
                   /\ UNCHANGED pending
              ELSE /\ pc' = [pc EXCEPT ![r] = "calibrate"]
                   /\ pending' = [pending EXCEPT ![r] = <<NewCalibration(r, in)>>]
                   /\ UNCHANGED response
    /\ UNCHANGED <<moduleAvailable, bindings, calibrations, calibrationSamples>>
    /\ UNCHANGED notCalVars

\* a slip in the success branch: the static window's end is taken from the
\* rotation slice
CompletedWrongSlice(cal, out) ==
    [cal EXCEPT !.rotation_matrix = TRUE, !.installation_angles = TRUE,
                !.purity = out.purity,
                !.static_window = <<out.static_slice[1], out.rotation_slice[2]>>,
                !.rotation_window = out.rotation_slice,
                !.calibration_status = "completed",
                !.completed_at = TRUE, !.failure_reason = <<>>,
                !.acc_offset = TRUE]

\* the success branch: the result stored on the record
Completed(cal, out) ==
    [cal EXCEPT !.rotation_matrix = TRUE, !.installation_angles = TRUE,
                !.purity = out.purity,
                !.static_window = out.static_slice,
                !.rotation_window = out.rotation_slice,
                !.calibration_status = "completed",
                !.completed_at = TRUE, !.failure_reason = <<>>,
                !.acc_offset = TRUE]

Failed(cal, reason) ==
    [cal EXCEPT !.calibration_status = "failed", !.failure_reason = reason]

\* the try block with an except branch that leaves the status alone
CalibratedStatusKept(cal, available) ==
    IF ~available THEN [cal EXCEPT !.failure_reason = RaisedReason("module unavailable")]
    ELSE LET out == auto_calibrate_imu(cal.samples, 100, 200, 80)
         IN IF out.raised THEN [cal EXCEPT !.failure_reason = RaisedReason(out.error)]
            ELSE IF out.success THEN Completed(cal, out)
            ELSE Failed(cal, ReturnedReason(out.error))

\* the try block calling the algorithm with a rotation window of 50 samples
CalibratedSmallWindow(cal, available) ==
    IF ~available THEN Failed(cal, RaisedReason("module unavailable"))
    ELSE LET out == auto_calibrate_imu(cal.samples, 100, 50, 80)
         IN IF out.raised THEN Failed(cal, RaisedReason(out.error))
            ELSE IF out.success THEN Completed(cal, out)
            ELSE Failed(cal, ReturnedReason(out.error))

\* the try block storing str(e) alone on a raise
CalibratedBareText(cal, available) ==
    IF ~available THEN Failed(cal, ReturnedReason("module unavailable"))
    ELSE LET out == auto_calibrate_imu(cal.samples, 100, 200, 80)
         IN IF out.raised THEN Failed(cal, ReturnedReason(out.error))
            ELSE IF out.success THEN Completed(cal, out)
            ELSE Failed(cal, ReturnedReason(out.error))

\* the try block around the algorithm
Calibrated(cal, available) ==
    IF ~available THEN Failed(cal, RaisedReason("module unavailable"))
    ELSE LET out == auto_calibrate_imu(cal.samples, 100, 200, 80)
         IN IF out.raised THEN Failed(cal, RaisedReason(out.error))
            ELSE IF out.success THEN Completed(cal, out)
            ELSE Failed(cal, ReturnedReason(out.error))

Calibrate(r) ==
    /\ pc[r] = "calibrate"
    /\ pending' = [pending EXCEPT
                     ![r] = <<Calibrated(pending[r][1], moduleAvailable)>>]
    /\ pc' = [pc EXCEPT ![r] = "commit"]
    /\ UNCHANGED <<moduleAvailable, bindings, calibrations, calibrationSamples,
                   request, response>>
    /\ UNCHANGED notCalVars

\* the rows of the record proper, and of its samples table
Row(cal) == [f \in (DOMAIN cal) \ {"samples"} |-> cal[f]]

SampleRows(cal) == [calibration_id |-> cal.id, samples |-> cal.samples]

\* a commit on one database session shared by every request: it commits
\* what the other requests have flushed as well
CommitSharedSession(r) ==
    /\ pc[r] = "commit"
    /\ calibrations' = calibrations
          \cup {Row(pending[q][1]) : q \in {x \in Requests : pending[x] # <<>>}}
    /\ calibrationSamples' = calibrationSamples
          \cup {SampleRows(pending[q][1]) : q \in {x \in Requests : pending[x] # <<>>}}
    /\ response' = [response EXCEPT ![r] = <<200, Row(pending[r][1])>>]
    /\ pending' = [pending EXCEPT ![r] = <<>>]
    /\ pc' = [pc EXCEPT ![r] = "done"]
    /\ UNCHANGED <<moduleAvailable, bindings, request>>
    /\ UNCHANGED notCalVars

\* session.add(calibration); session.commit(); the response
Commit(r) ==
    /\ pc[r] = "commit"
    /\ calibrations' = calibrations \cup {Row(pending[r][1])}
    /\ calibrationSamples' = calibrationSamples \cup {SampleRows(pending[r][1])}
    /\ response' = [response EXCEPT ![r] = <<200, Row(pending[r][1])>>]
    /\ pending' = [pending EXCEPT ![r] = <<>>]
    /\ pc' = [pc EXCEPT ![r] = "done"]
    /\ UNCHANGED <<moduleAvailable, bindings, request>>
    /\ UNCHANGED notCalVars

CalInit ==
    /\ moduleAvailable \in BOOLEAN
    /\ bindings = {<<"u1", "d1">>, <<"u2", "d2">>}
    /\ calibrations = {}
    /\ calibrationSamples = {}
    /\ pc = [r \in Requests |-> "idle"]
    /\ request = [r \in Requests |-> <<>>]
    /\ pending = [r \in Requests |-> <<>>]
    /\ response = [r \in Requests |-> <<>>]

CalIdle ==
    /\ CalInit /\ moduleAvailable

Init == CalInit /\ TurnIdle /\ MetricsIdle /\ CodesIdle /\ AuthIdle
          /\ LimiterIdle /\ IngestIdle /\ CacheIdle /\ DevIdle /\ SkiIdle /\ RaceIdle

ReceiveSome == \E r \in Requests : Receive(r, SomeBatches)

CalibrateAny == \E r \in Requests : Calibrate(r)

CommitAny == \E r \in Requests : Commit(r)

Next == ReceiveSome \/ CalibrateAny \/ CommitAny

Spec == Init /\ [][Next]_vars

\* one request, over every batch of at most MaxSegments segments
ReceiveBatch == Receive("r1", Batches)

CalibrateBatch == Calibrate("r1")

CommitBatch == Commit("r1")

NextBatch == ReceiveBatch \/ CalibrateBatch \/ CommitBatch

SpecBatch == Init /\ [][NextBatch]_vars

\* ------------------------------------------------------------------------
\* Properties of the calibration endpoint
\* ------------------------------------------------------------------------
Input(r) == request[r][1]

\* the request was not answered 404, 403, 400 or 500 before anything was stored
Accepted(r) == request[r] # <<>> /\ Rejection(Input(r), bindings) = 0

RecordsOf(r) == {c \in calibrations : c.id = r}

SamplesOf(r) == {x \in calibrationSamples : x.calibration_id = r}

AlgorithmOutcome(r) == auto_calibrate_imu(Input(r).data.batch, 100, 200, 80)

AlgorithmSucceeded(r) ==
    moduleAvailable /\ ~AlgorithmOutcome(r).raised /\ AlgorithmOutcome(r).success

\* C1: every accepted request that has finished has committed exactly one
\* calibration record, whose status is 'completed' or 'failed' and never
\* 'in_progress'; it is 'completed' exactly when auto_calibrate_imu returned
\* success=True; when the algorithm reported failure, raised or was
\* unavailable the record is 'failed' with a failure_reason, and the request
\* was answered 200.
C1_TerminalRecord ==
    /\ \A c \in calibrations : c.calibration_status \in {"completed", "failed"}
    /\ \A r \in Requests :
         (pc[r] = "done" /\ Accepted(r)) =>
            /\ Cardinality(RecordsOf(r)) = 1
            /\ response[r][1] = 200
            /\ \A c \in RecordsOf(r) :
                 /\ c.calibration_status = "completed" <=> AlgorithmSucceeded(r)
                 /\ c.calibration_status = "failed" <=> ~AlgorithmSucceeded(r)
                 /\ c.calibration_status = "failed" => c.failure_reason # <<>>

C1_Witness ==
    \E r, q \in Requests :
       /\ pc[r] = "done" /\ Accepted(r) /\ pc[q] = "done" /\ Accepted(q)
       /\ \E c \in RecordsOf(r) : c.calibration_status = "completed"
       /\ \E c \in RecordsOf(q) : c.calibration_status = "failed"

\* C2: a non-empty batch of fewer than 100 + 200 rows makes the calibration
\* return success=False with a failure reason, without raising, and the
\* request's record is stored 'failed'.
C2_ShortBatchFails ==
    \A r \in Requests :
       (pc[r] = "done" /\ Accepted(r)
          /\ TotalSamples(Input(r).data.batch) > 0
          /\ TotalSamples(Input(r).data.batch) < 100 + 200) =>
             /\ ~AlgorithmOutcome(r).raised
             /\ ~AlgorithmOutcome(r).success
             /\ AlgorithmOutcome(r).error \in FailureReasons
             /\ response[r][1] = 200
             /\ \A c \in RecordsOf(r) :
                  /\ c.calibration_status = "failed"
                  /\ c.failure_reason # <<>>
                  /\ c.purity = <<>> /\ c.static_window = <<>>
                  /\ c.rotation_window = <<>>
             /\ RecordsOf(r) # {}

C2_Witness ==
    \E r \in Requests :
       /\ pc[r] = "done" /\ Accepted(r) /\ moduleAvailable
       /\ TotalSamples(Input(r).data.batch) = 250
       /\ \E c \in RecordsOf(r) : c.calibration_status = "failed"

\* C3 as claimed: the failure_reason of every 'failed' record is exactly one
\* of the four reasons of the result assembler.
C3_ReasonIsOneOfFour ==
    \A c \in calibrations :
       c.calibration_status = "failed" =>
          c.failure_reason \in {ReturnedReason(f) : f \in FailureReasons}

\* C3 as amended: the failure_reason of every 'failed' record is either the
\* message auto_calibrate_imu returned, which is one of the four reasons, or,
\* when the algorithm raised or the module is unavailable, the handler's own
\* prefix followed by the text of the exception; the second happens exactly
\* when no result was returned.
C3_ReasonReturnedOrRaised ==
    \A c \in calibrations :
       c.calibration_status = "failed" =>
          LET returned == moduleAvailable /\ ~AlgorithmOutcome(c.id).raised
          IN /\ Len(c.failure_reason) = 2
             /\ returned => c.failure_reason
                               \in {ReturnedReason(f) : f \in FailureReasons}
             /\ ~returned => /\ c.failure_reason[1] = RaisedReason("")[1]
                             /\ c.failure_reason[2] \notin FailureReasons

\* a record that failed because the module could not be imported
C3_Witness ==
    \E c \in calibrations :
       /\ c.calibration_status = "failed"
       /\ c.failure_reason = RaisedReason("module unavailable")

\* C4: on every completed record the static window and the rotation window
\* are half-open ranges [start, stop) inside [0, total_samples) that do not
\* overlap.
InsideBatch(w, total) ==
    Len(w) = 2 /\ 0 <= w[1] /\ w[1] < w[2] /\ w[2] <= total

C4_WindowsDisjoint ==
    \A c \in calibrations :
       c.calibration_status = "completed" =>
          /\ InsideBatch(c.static_window, c.total_samples)
          /\ InsideBatch(c.rotation_window, c.total_samples)
          /\ \/ c.static_window[2] <= c.rotation_window[1]
             \/ c.rotation_window[2] <= c.static_window[1]

\* a completed record whose rotation window lies before its static window
C4_Witness ==
    \E c \in calibrations :
       /\ c.calibration_status = "completed"
       /\ c.rotation_window[2] <= c.static_window[1]

\* C5: what a request stores and answers is what it would store and answer
\* alone, whatever a concurrent request on another (user, device) pair does.
AloneRecord(r) == Row(Calibrated(NewCalibration(r, Input(r)), moduleAvailable))

AloneSamples(r) == SampleRows(NewCalibration(r, Input(r)))

AsIfAlone(r) ==
    IF Accepted(r)
      THEN /\ RecordsOf(r) = {AloneRecord(r)}
           /\ SamplesOf(r) = {AloneSamples(r)}
           /\ response[r] = <<200, AloneRecord(r)>>
      ELSE /\ RecordsOf(r) = {}
           /\ SamplesOf(r) = {}
           /\ response[r] = <<Rejection(Input(r), bindings)>>

Pair(r) == <<Input(r).user, Input(r).device_id>>

C5_NoInterference ==
    \A r, q \in Requests :
       (r # q /\ request[r] # <<>> /\ request[q] # <<>> /\ Pair(r) # Pair(q)
          /\ pc[r] = "done") => AsIfAlone(r)

\* one request has finished while another, on another pair, is part-way
C5_Witness ==
    \E r, q \in Requests :
       /\ r # q /\ pc[r] = "done" /\ Accepted(r) /\ pc[q] = "commit"
       /\ Pair(r) # Pair(q)
       /\ Input(r).data.batch # Input(q).data.batch
       /\ \E c \in RecordsOf(r) : c.calibration_status = "completed"

\* ------------------------------------------------------------------------
\* ski_compute: the turn extractor (precompiled module; modelled from the
\* design of the Turn/Edge Metrics Extractor)
\* ------------------------------------------------------------------------
\* Z-axis angular velocity of one sample, in units of the onset threshold / 2
YawRates == {-8, 0, 8}

Abs(x) == IF x < 0 THEN -x ELSE x

Sign(x) == IF x > 0 THEN 1 ELSE IF x < 0 THEN -1 ELSE 0

\* single-pole low-pass filter y + (x - y) / 2, rounding towards zero
LowPass(y, x) == y + Sign(x - y) * (Abs(x - y) \div 2)

\* the filtered yaw rate is past the onset threshold
AboveOnset(y) == Abs(y) > 2

\* turns shorter than this many samples are discarded as noise
MinTurnSamples == 2

Direction(y) == IF y > 0 THEN "left" ELSE "right"

LastFiltered == IF filtered = <<>> THEN 0 ELSE filtered[Len(filtered)]

TurnRecord(start, end, apex) ==
    [start_index |-> start, end_index |-> end, direction |-> Direction(apex),
     turn_duration |-> end - start]

\* a turn record that is not checked against the minimum duration
EmittedAlways(record) == <<record>>

\* the records a finished turn adds: none when it was too short
Emitted(record) ==
    IF record.turn_duration < MinTurnSamples THEN <<>> ELSE <<record>>

\* one sample through the filter and the state machine
ReadSample ==
    /\ Len(yaw) < MaxStream
    /\ \E x \in YawRates :
         LET y == LowPass(LastFiltered, x)
             k == Len(yaw) + 1
         IN /\ yaw' = Append(yaw, x)
            /\ filtered' = Append(filtered, y)
            /\ IF turnState = "CRUISING"
                 THEN IF AboveOnset(y) /\ ~AboveOnset(LastFiltered)
                        THEN /\ turnState' = "IN_TURN"
                             /\ turnStart' = k
                             /\ UNCHANGED turns
                        ELSE UNCHANGED <<turnState, turnStart, turns>>
                 ELSE IF Abs(y) < Abs(LastFiltered) \/ ~AboveOnset(y)
                        THEN /\ turnState' = "CRUISING"
                             /\ turns' = turns \o
                                  Emitted(TurnRecord(turnStart, k, LastFiltered))
                             /\ UNCHANGED turnStart
                        ELSE UNCHANGED <<turnState, turnStart, turns>>
    /\ UNCHANGED notTurnVars

InitTurn == CalIdle /\ TurnIdle /\ MetricsIdle /\ CodesIdle /\ AuthIdle
          /\ LimiterIdle /\ IngestIdle /\ CacheIdle /\ DevIdle /\ SkiIdle /\ RaceIdle

NextTurn == ReadSample

SpecTurn == InitTurn /\ [][NextTurn]_vars

\* ------------------------------------------------------------------------
\* Properties of the turn extractor
\* ------------------------------------------------------------------------
FilteredAt(k) == IF k = 0 THEN 0 ELSE filtered[k]

\* the samples at which the filtered signal crosses above the threshold
Onsets ==
    {k \in 1..Len(filtered) :
        AboveOnset(filtered[k]) /\ ~AboveOnset(FilteredAt(k - 1))}

\* the samples after onset k at which its excursion has passed its extremum
\* or has fallen back under the threshold
Ends(k) ==
    {j \in (k + 1)..Len(filtered) :
        Abs(filtered[j]) < Abs(filtered[j - 1]) \/ ~AboveOnset(filtered[j])}

EndOf(k) == CHOOSE j \in Ends(k) : \A i \in Ends(k) : j <= i

CompletedExcursions == {k \in Onsets : Ends(k) # {}}

LongExcursions ==
    {k \in CompletedExcursions : EndOf(k) - k >= MinTurnSamples}

RecordStarts == {turns[i].start_index : i \in 1..Len(turns)}

\* a record is added only by a step from IN_TURN to CRUISING
EmitsOnlyOnTurnEnd ==
    [][turns' # turns =>
         /\ turnState = "IN_TURN" /\ turnState' = "CRUISING"
         /\ Len(turns') = Len(turns) + 1]_vars

\* C6 as claimed: the state is CRUISING or IN_TURN, a record is emitted only
\* on a step from IN_TURN to CRUISING, and the number of records equals the
\* number of completed above-threshold excursions.
C6_RecordPerExcursion ==
    /\ turnState \in {"CRUISING", "IN_TURN"}
    /\ Len(turns) = Cardinality(CompletedExcursions)

\* C6 as amended: the state is CRUISING or IN_TURN, a record is emitted only
\* on a step from IN_TURN to CRUISING, and there is exactly one record for
\* each completed excursion that lasted the minimum turn duration, in order,
\* with the direction of the excursion's sign; so a flat signal has none.
C6_RecordPerLongExcursion ==
    /\ [](/\ turnState \in {"CRUISING", "IN_TURN"}
          /\ Len(turns) = Cardinality(LongExcursions)
          /\ RecordStarts = LongExcursions
          /\ \A i \in 1..Len(turns) :
               /\ turns[i].direction = Direction(filtered[turns[i].start_index])
               /\ turns[i].end_index = EndOf(turns[i].start_index)
               /\ \A j \in 1..(i - 1) :
                     turns[j].start_index < turns[i].start_index
          /\ ((\A k \in 1..Len(yaw) : yaw[k] = 0) => turns = <<>>))
    /\ EmitsOnlyOnTurnEnd

\* two excursions of opposite sign have each left their record
C6_Witness ==
    /\ Len(turns) = 2
    /\ turns[1].direction = "left" /\ turns[2].direction = "right"
    /\ Cardinality(CompletedExcursions) = 2

\* ------------------------------------------------------------------------
\* compute_metrics_from_raw_data
\* ------------------------------------------------------------------------
\* a turn dict of process_ski_session, by the fields the mapping branches on
TurnTimes ==
    {[carving_time |-> 0, turn_duration |-> 2],
     [carving_time |-> 1, turn_duration |-> 2],
     [carving_time |-> 1, turn_duration |-> 0]}

\* <<front_edge_angle, back_edge_angle>>: front edge dominant, none, back
TurnEdges == {<<-2, 1>>, <<0, 0>>, <<1, 1>>}

TurnDicts ==
    {[front_edge_angle |-> e[1], back_edge_angle |-> e[2],
      carving_time |-> t.carving_time, turn_duration |-> t.turn_duration,
      direction |-> d] :
        e \in TurnEdges, t \in TurnTimes, d \in {"left", "right"}}

RECURSIVE AllTurns(_)
AllTurns(results) ==
    IF results = <<>> THEN <<>>
    ELSE (IF Head(results).kind = "turns" THEN Head(results).turns ELSE <<>>)
           \o AllTurns(Tail(results))

\* x if x != 0 else None
NonZero(x) == IF x = 0 THEN <<>> ELSE <<x>>

\* the avg_skiing_speed of every turn
TurnSpeed == <<5>>

\* the record built when no turn was found, and on an error
NoTurnMetric ==
    [turn_detected |-> FALSE, turn_direction |-> <<>>,
     edge_angle_front |-> <<>>, edge_angle_back |-> <<>>,
     edge_angle_speed_front |-> <<>>, edge_angle_speed_back |-> <<>>,
     edge_time_ratio |-> <<>>, edge_duration_seconds |-> <<>>,
     turn_duration_seconds |-> <<>>, speed_kmh |-> <<>>]

\* the SkiingMetric of one turn
TurnMetric(turn) ==
    LET front == Abs(turn.front_edge_angle) > Abs(turn.back_edge_angle)
    IN [turn_detected |-> TRUE, turn_direction |-> <<turn.direction>>,
        edge_angle_front |-> NonZero(turn.front_edge_angle),
        edge_angle_back |-> NonZero(turn.back_edge_angle),
        edge_angle_speed_front |-> IF front THEN TurnSpeed ELSE <<>>,
        edge_angle_speed_back |-> IF front THEN <<>> ELSE TurnSpeed,
        edge_time_ratio |->
           IF turn.turn_duration # 0 /\ turn.carving_time # 0
             THEN <<turn.carving_time, turn.turn_duration>> ELSE <<>>,
        edge_duration_seconds |-> <<turn.carving_time>>,
        turn_duration_seconds |-> <<turn.turn_duration>>,
        speed_kmh |-> TurnSpeed]

RECURSIVE TurnMetrics(_)
TurnMetrics(ts) ==
    IF ts = <<>> THEN <<>> ELSE <<TurnMetric(Head(ts))>> \o TurnMetrics(Tail(ts))

\* a metrics list that is returned as it is when no turn was found
MetricsListNoBase(call) ==
    IF call.kind = "list" THEN TurnMetrics(AllTurns(call.results)) ELSE <<>>

\* a metrics list that always gets the base record
MetricsListAlwaysBase(call) ==
    (IF call.kind = "list" THEN TurnMetrics(AllTurns(call.results)) ELSE <<>>)
       \o <<NoTurnMetric>>

\* metrics_list after the loop over the segments and the 'if not metrics_list'
MetricsList(call) ==
    LET found == IF call.kind = "list"
                   THEN TurnMetrics(AllTurns(call.results)) ELSE <<>>
    IN IF found = <<>> THEN <<NoTurnMetric>> ELSE found

\* the call up to process_ski_session: with no IMU and no barometer rows it
\* raises ValueError, with only one of the two the column selection of an
\* empty frame raises KeyError; neither is caught
CallMetrics ==
    /\ metricsCall = <<>>
    /\ \E imu \in BOOLEAN, baro \in BOOLEAN :
         /\ metricsCall' = <<[imu |-> imu, baro |-> baro, kind |-> "running",
                              results |-> <<>>]>>
         /\ metricsReturn' =
              IF ~imu /\ ~baro THEN <<[raised |-> "ValueError", list |-> <<>>]>>
              ELSE IF ~imu \/ ~baro THEN <<[raised |-> "KeyError", list |-> <<>>]>>
              ELSE <<>>
    /\ UNCHANGED skiingMetrics
    /\ UNCHANGED notMetVars

Extracting == metricsCall # <<>> /\ metricsReturn = <<>>

\* process_ski_session adds an element to its result: something that is no
\* dict ("other"), a dict without 'turns' ("noturns"), or a segment dict
ExtractSegment ==
    /\ Extracting
    /\ Len(metricsCall[1].results) < MaxSkiSegments
    /\ \E k \in {"other", "noturns", "turns"} :
         metricsCall' = <<[metricsCall[1] EXCEPT
              !.results = Append(@, [kind |-> k, turns |-> <<>>])]>>
    /\ UNCHANGED <<metricsReturn, skiingMetrics>>
    /\ UNCHANGED notMetVars

\* process_ski_session adds a turn to the segment it is working on
ExtractTurn ==
    /\ Extracting
    /\ metricsCall[1].results # <<>>
    /\ metricsCall[1].results[Len(metricsCall[1].results)].kind = "turns"
    /\ Len(AllTurns(metricsCall[1].results)) < MaxTurns
    /\ \E t \in TurnDicts :
         metricsCall' = <<[metricsCall[1] EXCEPT
              !.results[Len(metricsCall[1].results)].turns = Append(@, t)]>>
    /\ UNCHANGED <<metricsReturn, skiingMetrics>>
    /\ UNCHANGED notMetVars

\* process_ski_session raises: the except branch returns one record and
\* commits nothing
ExtractorRaises ==
    /\ Extracting
    /\ metricsCall' = <<[metricsCall[1] EXCEPT !.kind = "raise"]>>
    /\ metricsReturn' = <<[raised |-> "", list |-> <<NoTurnMetric>>]>>
    /\ UNCHANGED skiingMetrics
    /\ UNCHANGED notMetVars

\* process_ski_session returns its list, or something that is no list: the
\* rest of the call builds the records, commits and returns them
ExtractorReturns ==
    /\ Extracting
    /\ \E k \in {"list", "notlist"} :
         /\ k = "notlist" => metricsCall[1].results = <<>>
         /\ metricsCall' = <<[metricsCall[1] EXCEPT !.kind = k]>>
         /\ metricsReturn' =
              <<[raised |-> "", list |-> MetricsList(metricsCall'[1])]>>
         /\ skiingMetrics' = skiingMetrics \o MetricsList(metricsCall'[1])
    /\ UNCHANGED notMetVars

InitMetrics == CalIdle /\ TurnIdle /\ MetricsIdle /\ CodesIdle /\ AuthIdle
          /\ LimiterIdle /\ IngestIdle /\ CacheIdle /\ DevIdle /\ SkiIdle /\ RaceIdle

NextMetrics ==
    \/ CallMetrics \/ ExtractSegment \/ ExtractTurn
    \/ ExtractorRaises \/ ExtractorReturns

SpecMetrics == InitMetrics /\ [][NextMetrics]_vars

\* ------------------------------------------------------------------------
\* Properties of compute_metrics_from_raw_data
\* ------------------------------------------------------------------------
\* process_ski_session was called and returned, and so has the call
ExtractorReturned ==
    /\ metricsCall # <<>> /\ metricsReturn # <<>>
    /\ metricsCall[1].kind \in {"list", "notlist"}

ReportedTurns == AllTurns(metricsCall[1].results)

Returned == metricsReturn[1]

\* C7 as claimed: when process_ski_session reports no turns the call returns
\* an empty list, persists no metric record and raises nothing.
C7_NoTurnsEmptyList ==
    (ExtractorReturned /\ ReportedTurns = <<>>) =>
        /\ Returned.raised = ""
        /\ Returned.list = <<>>
        /\ skiingMetrics = <<>>

\* C7 as amended: when process_ski_session reports no turns the call raises
\* nothing and returns and persists exactly one record, with
\* turn_detected=False and every metric field null.
C7_NoTurnsBaseRecord ==
    (ExtractorReturned /\ ReportedTurns = <<>>) =>
        /\ Returned.raised = ""
        /\ Len(Returned.list) = 1
        /\ ~Returned.list[1].turn_detected
        /\ \A f \in (DOMAIN Returned.list[1]) \ {"turn_detected"} :
              Returned.list[1][f] = <<>>
        /\ skiingMetrics = Returned.list

\* a session whose segments hold no turn at all
C7_Witness ==
    /\ ExtractorReturned
    /\ metricsCall[1].kind = "list"
    /\ Len(metricsCall[1].results) = 2
    /\ ReportedTurns = <<>>
    /\ Len(skiingMetrics) = 1

VERIFICATION_CODE_EXPIRE_MINUTES == 5

max_attempts == 3

expire_seconds == VERIFICATION_CODE_EXPIRE_MINUTES * 60

Phones == {"13800138000", "13900139000"}

Codes == {"111111", "222222"}

\* the characters of the phone texts a request can bring: the two phones, the
\* four texts of test_send_code_invalid_phone, and a phone followed by a
\* line feed
Chars ==
    [p \in {"13800138000", "13900139000", "1234567890", "23800138000",
            "abc12345678", "138001380001", "13800138000\n"} |->
      CASE p = "13800138000" ->
             <<"1", "3", "8", "0", "0", "1", "3", "8", "0", "0", "0">>
        [] p = "13900139000" ->
             <<"1", "3", "9", "0", "0", "1", "3", "9", "0", "0", "0">>
        [] p = "1234567890" ->
             <<"1", "2", "3", "4", "5", "6", "7", "8", "9", "0">>
        [] p = "23800138000" ->
             <<"2", "3", "8", "0", "0", "1", "3", "8", "0", "0", "0">>
        [] p = "abc12345678" ->
             <<"a", "b", "c", "1", "2", "3", "4", "5", "6", "7", "8">>
        [] p = "138001380001" ->
             <<"1", "3", "8", "0", "0", "1", "3", "8", "0", "0", "0", "1">>
        [] p = "13800138000\n" ->
             <<"1", "3", "8", "0", "0", "1", "3", "8", "0", "0", "0", "\n">>]

PhoneInputs == DOMAIN Chars

\* f"{self.prefix}{phone}"
CodeKey(phone) == <<"verification_code:", phone>>

CodeKeys == {CodeKey(p) : p \in PhoneInputs}

\* f"{self.rate_limit_prefix}{phone}"
RateKey(phone) == <<"rate_limit:", phone>>

RateKeys == {RateKey(p) : p \in PhoneInputs}

\* _init_redis: the Redis client, or MockRedis in the local environment
Backends == {"redis", "mock"}

\* The store answers every command. A value is kept as <<[value, expire_at]>>;
\* the JSON text of {code, created_at, attempts} is modelled by the record it
\* encodes, which json.loads gives back unchanged.

\* GET: the value, or <<>> when the key is missing or its time is up
Get(kv, key, t) ==
    IF kv[key] # <<>> /\ t < kv[key][1].expire_at THEN <<kv[key][1].value>>
    ELSE <<>>

\* a key whose time is up is gone once it is looked at
Expired(kv, key, t) ==
    IF kv[key] # <<>> /\ ~(t < kv[key][1].expire_at)
      THEN [kv EXCEPT ![key] = <<>>] ELSE kv

\* SETEX key time value
Setex(kv, key, time, value, t) ==
    [kv EXCEPT ![key] = <<[value |-> value, expire_at |-> t + time]>>]

\* DELETE key
Delete(kv, key) == [kv EXCEPT ![key] = <<>>]

\* the check with > in place of >=
AttemptsUsedUpLate(data) == data.attempts > max_attempts

\* data["attempts"] >= self.max_attempts
AttemptsUsedUp(data) == data.attempts >= max_attempts

\* success that leaves the code in the store
AfterMatchKept(kv, key) == kv

\* the store after the stored code matched the input
AfterMatch(kv, key) == Delete(kv, key)

\* store_code(phone, code)
StoreCode(phone, code) ==
    /\ calls < MaxCalls
    /\ calls' = calls + 1
    /\ store' = Setex(store, CodeKey(phone), expire_seconds,
                      [code |-> code, created_at |-> now, attempts |-> 0], now)
    /\ lastCall' = <<[op |-> "store_code", phone |-> phone, code |-> code,
                      result |-> TRUE]>>
    /\ compared' = [compared EXCEPT ![phone] = 0]
    /\ consumed' = [consumed EXCEPT ![phone] = FALSE]
    /\ UNCHANGED <<now, backend, window, sms>>
    /\ UNCHANGED notVcVars

\* verify_code(phone, input_code)
VerifyCode(phone, input_code) ==
    /\ calls < MaxCalls
    /\ calls' = calls + 1
    /\ UNCHANGED <<now, backend, window, sms>>
    /\ LET key == CodeKey(phone)
           data_str == Get(store, key, now)
           kv == Expired(store, key, now)
           result(r) == lastCall' = <<[op |-> "verify_code", phone |-> phone,
                                       code |-> input_code, result |-> r]>>
       IN IF data_str = <<>>
            THEN /\ result(FALSE)
                 /\ store' = kv
                 /\ UNCHANGED <<compared, consumed>>
          ELSE IF AttemptsUsedUp(data_str[1])
            THEN /\ result(FALSE)
                 /\ store' = Delete(kv, key)
                 /\ UNCHANGED <<compared, consumed>>
          ELSE IF data_str[1].code = input_code
            THEN /\ result(TRUE)
                 /\ store' = AfterMatch(kv, key)
                 /\ compared' = [compared EXCEPT ![phone] = @ + 1]
                 /\ consumed' = [consumed EXCEPT ![phone] = TRUE]
          ELSE /\ result(FALSE)
               /\ store' = Setex(kv, key, expire_seconds,
                                 [data_str[1] EXCEPT !.attempts = @ + 1], now)
               /\ compared' = [compared EXCEPT ![phone] = @ + 1]
               /\ UNCHANGED consumed
    /\ UNCHANGED notVcVars

\* time passes
Tick ==
    /\ now + TickSeconds <= MaxTime
    /\ now' = now + TickSeconds
    /\ UNCHANGED <<store, calls, lastCall, compared, consumed, backend, window,
                   sms>>
    /\ UNCHANGED notVcVars

CodesInit ==
    /\ now = 0
    /\ store = [k \in CodeKeys \cup RateKeys |-> <<>>]
    /\ calls = 0
    /\ lastCall = <<>>
    /\ compared = [p \in Phones |-> 0]
    /\ consumed = [p \in Phones |-> FALSE]
    /\ backend \in Backends
    /\ window = [p \in PhoneInputs |-> <<>>]
    /\ sms = 0

InitVC ==
    CalIdle /\ TurnIdle /\ MetricsIdle /\ CodesInit /\ AuthIdle /\ LimiterIdle /\ IngestIdle /\ CacheIdle /\ DevIdle /\ SkiIdle /\ RaceIdle

StoreAny == \E p \in Phones, c \in Codes : StoreCode(p, c)

VerifyAny == \E p \in Phones, c \in Codes : VerifyCode(p, c)

NextVC == StoreAny \/ VerifyAny \/ Tick

SpecVC == InitVC /\ [][NextVC]_vars

\* ------------------------------------------------------------------------
\* Properties of the verification codes
\* ------------------------------------------------------------------------
\* this step is a call of verify_code for phone
Verifies(phone) ==
    /\ calls' = calls + 1
    /\ lastCall'[1].op = "verify_code"
    /\ lastCall'[1].phone = phone

\* the code stored for phone that a call would read now
Live(phone) == Get(store, CodeKey(phone), now)

\* C9: when verify_code has returned True the stored code is gone, and every
\* later verify_code for that phone returns False until store_code is called
\* for it again.
C9_SingleUse ==
    /\ []((/\ lastCall # <<>>
            /\ lastCall[1].op = "verify_code"
            /\ lastCall[1].result) =>
                store[CodeKey(lastCall[1].phone)] = <<>>)
    /\ [][\A p \in Phones :
            (consumed[p] /\ Verifies(p)) => ~lastCall'[1].result]_vars

\* the code has verified once and has then been tried again
C9_Witness ==
    /\ lastCall # <<>>
    /\ lastCall[1].op = "verify_code" /\ ~lastCall[1].result
    /\ consumed[lastCall[1].phone]

\* C10: at most max_attempts guesses are compared with one stored code; a
\* wrong guess at a code with attempts left returns False, adds exactly 1 to
\* the stored attempts and keeps the code; and once attempts equals
\* max_attempts the next verify_code returns False and deletes the code, even
\* when it brings the right code.
C10_AttemptsBounded ==
    /\ [](\A p \in Phones : compared[p] <= max_attempts)
    /\ [][\A p \in Phones :
            (Verifies(p) /\ Live(p) # <<>>) =>
               LET data == Live(p)[1]
                   after == store'[CodeKey(p)]
               IN /\ (data.attempts < max_attempts
                        /\ lastCall'[1].code # data.code) =>
                         /\ ~lastCall'[1].result
                         /\ after # <<>>
                         /\ after[1].value.attempts = data.attempts + 1
                         /\ after[1].value.code = data.code
                  /\ (data.attempts = max_attempts) =>
                         /\ ~lastCall'[1].result
                         /\ after = <<>>]_vars

\* the right code has been refused and deleted after max_attempts wrong ones
C10_Witness ==
    \E p \in Phones :
       /\ compared[p] = max_attempts
       /\ ~consumed[p]
       /\ store[CodeKey(p)] = <<>>
       /\ lastCall # <<>>
       /\ lastCall[1].op = "verify_code" /\ lastCall[1].phone = p
       /\ ~lastCall[1].result

\* C11: no verify_code made more than expire_seconds after the store_code
\* that created the code returns True, whatever wrong guesses came between.
C11_ValidForExpireSeconds ==
    [][\A p \in Phones :
          (Verifies(p) /\ lastCall'[1].result) =>
              now <= Live(p)[1].created_at + expire_seconds]_vars

\* a wrong guess has rewritten a code so that it outlives its first expiry
C11_Extended ==
    \E p \in Phones :
       /\ Live(p) # <<>>
       /\ Live(p)[1].attempts > 0
       /\ now > Live(p)[1].created_at + expire_seconds

\* ------------------------------------------------------------------------
\* The send-code rate limit and the send-code endpoint
\* ------------------------------------------------------------------------
\* settings.VERIFICATION_CODE_RATE_LIMIT_MINUTES, ..._RATE_LIMIT_COUNT
rate_limit_minutes == 1

rate_limit_count == 5

Digits == {"0", "1", "2", "3", "4", "5", "6", "7", "8", "9"}

\* re.match(r'^1[3-9]\d{9}$', phone): $ matches at the end of the text and
\* also just before a line feed that ends it
validate_phone(phone) ==
    LET s == Chars[phone]
    IN /\ Len(s) >= 11
       /\ s[1] = "1"
       /\ s[2] \in {"3", "4", "5", "6", "7", "8", "9"}
       /\ \A i \in 3..11 : s[i] \in Digits
       /\ \/ Len(s) = 11
          \/ Len(s) = 12 /\ s[12] = "\n"

\* the store holds the key: Redis drops a key when its time is up, MockRedis
\* looks at expire_at only in get
KeyExists(kv, key, t, be) ==
    /\ kv[key] # <<>>
    /\ (be = "mock" \/ t < kv[key][1].expire_at)

\* INCR key: a new key starts at 1, in Redis without a time to live and in
\* MockRedis with one hour
Incr(kv, key, t, be) ==
    IF KeyExists(kv, key, t, be)
      THEN [kv EXCEPT ![key] = <<[@[1] EXCEPT !.value = @ + 1]>>]
    ELSE IF be = "mock"
      THEN [kv EXCEPT ![key] = <<[value |-> 1, expire_at |-> t + 3600]>>]
    ELSE [kv EXCEPT ![key] = <<[value |-> 1]>>]

\* EXPIRE key time
Expire(kv, key, time, t) ==
    IF kv[key] # <<>>
      THEN [kv EXCEPT ![key] =
               <<[value |-> kv[key][1].value, expire_at |-> t + time]>>]
    ELSE kv

\* the comparison with < in place of <=
WithinLimitStrict(current) == current < rate_limit_count

\* current <= self.rate_limit_count
WithinLimit(current) == current <= rate_limit_count

\* check_rate_limit(phone) when the store answers
check_rate_limit(kv, phone, t, be) ==
    LET key == RateKey(phone)
        counted == Incr(kv, key, t, be)
        current == counted[key][1].value
    IN [store |-> IF current = 1
                    THEN Expire(counted, key, rate_limit_minutes * 60, t)
                    ELSE counted,
        current |-> <<current>>,
        result |-> WithinLimit(current)]

\* check_rate_limit(phone) when the store raises: the send is allowed
RateLimitOpen(kv) == [store |-> kv, current |-> <<>>, result |-> TRUE]

\* what one call of check_rate_limit can do; only the Redis client raises
RateOutcomes(kv, phone, t, be) ==
    {check_rate_limit(kv, phone, t, be)}
      \cup (IF be = "redis" THEN {RateLimitOpen(kv)} ELSE {})

\* the window of a phone after one more call of check_rate_limit: it starts
\* when the store counts 1, `made` counts the calls in it and `counted` those
\* the store answered
Counted(w, phone, out, t) ==
    IF out.current # <<>> /\ out.current[1] = 1
      THEN [w EXCEPT ![phone] = <<[start |-> t, made |-> 1, counted |-> 1]>>]
    ELSE IF w[phone] = <<>> THEN w
    ELSE IF out.current = <<>>
      THEN [w EXCEPT ![phone] = <<[@[1] EXCEPT !.made = @ + 1]>>]
    ELSE [w EXCEPT ![phone] =
             <<[@[1] EXCEPT !.made = @ + 1, !.counted = @ + 1]>>]

\* check_rate_limit(phone), called on the service
CheckRateLimit(phone) ==
    /\ calls < MaxChecks
    /\ calls' = calls + 1
    /\ \E out \in RateOutcomes(store, phone, now, backend) :
          /\ store' = out.store
          /\ window' = Counted(window, phone, out, now)
          /\ lastCall' = <<[op |-> "check_rate_limit", phone |-> phone,
                            limit |-> <<[current |-> out.current,
                                         result |-> out.result]>>,
                            status |-> 0]>>
    /\ UNCHANGED <<now, compared, consumed, backend, sms>>
    /\ UNCHANGED notVcVars

\* the guesses and the use of a phone's code start again with a new code
Restarted(f, phone, v) ==
    IF phone \in DOMAIN f THEN [f EXCEPT ![phone] = v] ELSE f

\* settings.ENVIRONMENT == "local": code = "123456"
LocalCode == "123456"

\* POST /auth/send-code, in the local environment with the mock SMS service;
\* the store answers the SETEX of store_code
SendCode(phone, bound) ==
    /\ calls < bound
    /\ calls' = calls + 1
    /\ UNCHANGED <<now, backend>>
    /\ LET answer(st, lim) ==
              lastCall' = <<[op |-> "send_code", phone |-> phone,
                             limit |-> lim, status |-> st]>>
       IN IF ~validate_phone(phone)
            THEN /\ answer(400, <<>>)
                 /\ UNCHANGED <<store, window, sms, compared, consumed>>
          ELSE \E out \in RateOutcomes(store, phone, now, backend) :
                 LET lim == <<[current |-> out.current,
                               result |-> out.result]>>
                 IN /\ window' = Counted(window, phone, out, now)
                    /\ IF ~out.result
                         THEN /\ answer(429, lim)
                              /\ store' = out.store
                              /\ UNCHANGED <<sms, compared, consumed>>
                       ELSE /\ store' = Setex(out.store, CodeKey(phone),
                                        expire_seconds,
                                        [code |-> LocalCode, created_at |-> now,
                                         attempts |-> 0], now)
                            /\ compared' = Restarted(compared, phone, 0)
                            /\ consumed' = Restarted(consumed, phone, FALSE)
                            /\ sms' = sms + 1
                            /\ answer(200, lim)
    /\ UNCHANGED notVcVars

\* time passes between the sends
TickSend ==
    /\ now + SendTick <= MaxSendTime
    /\ now' = now + SendTick
    /\ UNCHANGED <<store, calls, lastCall, compared, consumed, backend, window,
                   sms>>
    /\ UNCHANGED notVcVars

CheckAny == \E p \in Phones : CheckRateLimit(p)

\* the endpoint, called for one of the phones
SendKnown == SendCode("13800138000", MaxChecks)

NextRate == CheckAny \/ SendKnown \/ TickSend

SpecRate == InitVC /\ [][NextRate]_vars

SendAny == \E p \in PhoneInputs : SendCode(p, MaxSends)

NextSend == SendAny \/ TickSend

SpecSend == InitVC /\ [][NextSend]_vars

\* this step calls check_rate_limit for phone, directly or in the endpoint
ChecksRate(phone) ==
    /\ calls' = calls + 1
    /\ lastCall'[1].op \in {"check_rate_limit", "send_code"}
    /\ lastCall'[1].phone = phone
    /\ lastCall'[1].limit # <<>>

\* the window of phone is running after the step
InWindow(phone) ==
    /\ window'[phone] # <<>>
    /\ now < window'[phone][1].start + rate_limit_minutes * 60

\* a call for one phone leaves the counters of the others alone
OtherCountersKept(phone) ==
    \A q \in PhoneInputs \ {phone} :
       /\ store'[RateKey(q)] = store[RateKey(q)]
       /\ window'[q] = window[q]

ElevenDigitPhone(phone) ==
    LET s == Chars[phone]
    IN /\ Len(s) = 11
       /\ s[1] = "1"
       /\ s[2] \in {"3", "4", "5", "6", "7", "8", "9"}
       /\ \A i \in 3..11 : s[i] \in Digits

\* this step is a request to the endpoint with phone
Sends(phone) ==
    /\ calls' = calls + 1
    /\ lastCall'[1].op = "send_code"
    /\ lastCall'[1].phone = phone

\* C13: send_verification_code answers a phone of invalid format with 400 and
\* does nothing else: no rate-limit counter is incremented, no code is stored
\* or overwritten, no SMS is sent.
C13_InvalidPhoneRejected ==
    [][\A p \in PhoneInputs :
          (Sends(p) /\ ~ElevenDigitPhone(p)) =>
              /\ lastCall'[1].status = 400
              /\ store' = store
              /\ sms' = sms]_vars

\* a request whose phone is not an 11-digit number has been sent a code
C13_Accepted ==
    /\ lastCall # <<>>
    /\ lastCall[1].op = "send_code"
    /\ ~ElevenDigitPhone(lastCall[1].phone)
    /\ lastCall[1].status = 200
    /\ store[CodeKey(lastCall[1].phone)] # <<>>
    /\ sms > 0

\* ------------------------------------------------------------------------
\* get_current_user and the user-session routes
\* ------------------------------------------------------------------------
SessionIds == 1..MaxLogins

\* the claims create_access_token signs: sub, and sid when a session id is given
Claims(user, sid) == [sub |-> user, sid |-> sid]

\* what a request brings: no token, a text that is no JWT, or an issued token
NoToken == [kind |-> "none", claims |-> <<>>]

InvalidToken == [kind |-> "invalid_token_here", claims |-> <<>>]

Credentials ==
    {NoToken, InvalidToken}
      \cup {[kind |-> "jwt", claims |-> <<t>>] : t \in issued}

\* jwt.decode: the claims, or <<>> when InvalidTokenError is raised
Decode(cred) ==
    IF cred.kind = "jwt" /\ cred.claims[1] \notin agedOut THEN cred.claims
    ELSE <<>>

\* app.models.TokenPayload(**payload): the model has the field sub only, and
\* keys it does not declare are dropped
TokenPayload(payload) == [sub |-> payload.sub]

\* getattr(token_data, 'sid', None)
SidOf(token_data) ==
    IF "sid" \in DOMAIN token_data THEN token_data.sid ELSE <<>>

\* the status get_current_user answers with; 200 stands for returning the user
get_current_user(cred) ==
    IF cred.kind = "none" THEN 401
    ELSE IF Decode(cred) = <<>> THEN 403
    ELSE LET token_data == TokenPayload(Decode(cred)[1])
             user == token_data.sub
             session_id == SidOf(token_data)
         IN IF user \notin DOMAIN accounts THEN 404
            ELSE IF accounts[user] # "active" THEN 400
            ELSE IF session_id = <<>> THEN 200
            ELSE LET row == userSessions[session_id[1]]
                 IN IF row = <<>> \/ row[1].user_id # user THEN 401
                    ELSE IF ~row[1].is_active THEN 401
                    ELSE IF row[1].expired THEN 401
                    ELSE 200

\* the endpoints behind CurrentUser that the model calls
Operations ==
    {[name |-> "me", session_id |-> <<>>],
     [name |-> "logout", session_id |-> <<>>],
     [name |-> "logout_all", session_id |-> <<>>]}
      \cup {[name |-> n, session_id |-> <<i>>] :
               n \in {"logout", "delete"}, i \in SessionIds}

\* SessionRepository.invalidate_session: the row, when it is active, is made
\* inactive
invalidate_session(rows, i) ==
    [rows EXCEPT ![i] = <<[@[1] EXCEPT !.is_active = FALSE]>>]

\* SessionRepository.invalidate_all_sessions
invalidate_all_sessions(rows, user) ==
    [i \in DOMAIN rows |->
        IF rows[i] # <<>> /\ rows[i][1].user_id = user
          THEN <<[rows[i][1] EXCEPT !.is_active = FALSE]>>
          ELSE rows[i]]

\* the handler of op, run for user: its status and the rows it leaves
Handle(op, user, rows) ==
    IF op.name = "logout_all"
      THEN [status |-> 200, rows |-> invalidate_all_sessions(rows, user)]
    ELSE IF op.session_id = <<>>
      THEN [status |-> 200, rows |-> rows]
    ELSE LET i == op.session_id[1]
         IN IF rows[i] = <<>> \/ rows[i][1].user_id # user
              THEN [status |-> 404, rows |-> rows]
            ELSE IF rows[i][1].is_active
              THEN [status |-> 200, rows |-> invalidate_session(rows, i)]
            ELSE [status |-> 500, rows |-> rows]

\* a request to a protected endpoint
Request(cred, op) ==
    /\ requests < MaxRequests
    /\ requests' = requests + 1
    /\ LET status == get_current_user(cred)
       IN IF status # 200
            THEN /\ lastRequest' = <<[cred |-> cred, op |-> op,
                                      status |-> status, reached |-> FALSE]>>
                 /\ UNCHANGED userSessions
          ELSE LET done == Handle(op, cred.claims[1].sub, userSessions)
               IN /\ lastRequest' = <<[cred |-> cred, op |-> op,
                                       status |-> done.status,
                                       reached |-> TRUE]>>
                  /\ userSessions' = done.rows
    /\ UNCHANGED <<accounts, issued, agedOut>>
    /\ UNCHANGED notAuthVars

\* AuthService.login_with_code after the code verified: a session row and a
\* token that carries its id
Login(user) ==
    /\ \E i \in SessionIds :
          /\ userSessions[i] = <<>>
          /\ \A j \in SessionIds : j < i => userSessions[j] # <<>>
          /\ userSessions' = [userSessions EXCEPT ![i] =
                <<[user_id |-> user, is_active |-> TRUE, expired |-> FALSE]>>]
          /\ issued' = issued \cup {Claims(user, <<i>>)}
    /\ UNCHANGED <<accounts, agedOut, requests, lastRequest>>
    /\ UNCHANGED notAuthVars

\* POST /auth/login after the code verified: a token without a session id
LoginWithCode(user) ==
    /\ accounts[user] = "active"
    /\ Claims(user, <<>>) \notin issued
    /\ issued' = issued \cup {Claims(user, <<>>)}
    /\ UNCHANGED <<accounts, userSessions, agedOut, requests, lastRequest>>
    /\ UNCHANGED notAuthVars

\* the exp of a token passes, and with it the expires_at of its session
AgeOut(t) ==
    /\ t \notin agedOut
    /\ agedOut' = agedOut \cup {t}
    /\ userSessions' =
          IF t.sid = <<>> THEN userSessions
          ELSE [userSessions EXCEPT ![t.sid[1]] =
                   <<[@[1] EXCEPT !.expired = TRUE]>>]
    /\ UNCHANGED <<accounts, issued, requests, lastRequest>>
    /\ UNCHANGED notAuthVars

AuthInit ==
    /\ accounts \in [Users -> {"active", "inactive"}]
    /\ userSessions = [i \in SessionIds |-> <<>>]
    /\ issued = {}
    /\ agedOut = {}
    /\ requests = 0
    /\ lastRequest = <<>>

InitAuth ==
    CalIdle /\ TurnIdle /\ MetricsIdle /\ CodesIdle /\ AuthInit /\ LimiterIdle /\ IngestIdle /\ CacheIdle /\ DevIdle /\ SkiIdle /\ RaceIdle

RequestAny == \E cred \in Credentials, op \in Operations : Request(cred, op)

LoginAny == \E u \in Users : Login(u)

LoginWithCodeAny == \E u \in Users : LoginWithCode(u)

AgeOutAny == \E t \in issued : AgeOut(t)

NextAuth == RequestAny \/ LoginAny \/ LoginWithCodeAny \/ AgeOutAny

SpecAuth == InitAuth /\ [][NextAuth]_vars

\* ------------------------------------------------------------------------
\* Properties of authentication
\* ------------------------------------------------------------------------
\* this step is a request to a protected endpoint
Requesting == requests' = requests + 1

\* the session has been invalidated: its row is there and is not active
Invalidated(i) == userSessions[i] # <<>> /\ ~userSessions[i][1].is_active

\* the request brings a token that passes JWT validation, names session i and
\* belongs to an active user
NamesSession(cred, i) ==
    /\ Decode(cred) # <<>>
    /\ cred.claims[1].sid = <<i>>
    /\ cred.claims[1].sub \in DOMAIN accounts
    /\ accounts[cred.claims[1].sub] = "active"

\* C14: once a session is invalidated, every request with a token whose sid
\* names it is rejected with 401, whatever has happened since.
C14_InvalidatedRejected ==
    [][\A i \in SessionIds :
          (Requesting /\ Invalidated(i)
             /\ NamesSession(lastRequest'[1].cred, i)) =>
              /\ lastRequest'[1].status = 401
              /\ ~lastRequest'[1].reached]_vars

\* a token of an invalidated session has been let through to a handler
C14_Accepted ==
    /\ lastRequest # <<>>
    /\ lastRequest[1].reached
    /\ lastRequest[1].cred.claims[1].sid # <<>>
    /\ Invalidated(lastRequest[1].cred.claims[1].sid[1])
    /\ lastRequest[1].op.name = "me"

\* C15: a request without a token, or with a token that fails JWT validation,
\* is rejected with 401 and reaches no handler.
C15_Unauthenticated401 ==
    [][(Requesting /\ Decode(lastRequest'[1].cred) = <<>>) =>
          /\ lastRequest'[1].status = 401
          /\ ~lastRequest'[1].reached
          /\ userSessions' = userSessions]_vars

\* a text that is no JWT has been answered with 403
C15_Forbidden ==
    /\ lastRequest # <<>>
    /\ lastRequest[1].cred = InvalidToken
    /\ lastRequest[1].status = 403
    /\ ~lastRequest[1].reached

\* ------------------------------------------------------------------------
\* rate_limiter.py: InMemoryRateLimiter and RateLimiter
\* ------------------------------------------------------------------------
LimiterKeys == {"phone:13800138000", "ip:192.168.1.1"}

\* the lists of distinct keys check_multiple is called with (phone + IP)
KeyLists ==
    {ks \in UNION {[1..n -> LimiterKeys] : n \in 1..MaxKeys} :
        \A i, j \in DOMAIN ks : i # j => ks[i] # ks[j]}

\* while timestamps and timestamps[0] < cutoff_time: timestamps.popleft()
RECURSIVE PopOld(_, _)
\* no timestamp ever leaves
PopNone(ts, cutoff_time) == ts

PopOld(ts, cutoff_time) ==
    IF ts # <<>> /\ Head(ts) < cutoff_time
      THEN PopOld(Tail(ts), cutoff_time)
      ELSE ts

\* the check with > in place of >=
InMemoryCheckLate(mem, key, t, L) ==
    LET kept == PopOld(mem[key], t - WindowSeconds)
        current_count == Len(kept)
    IN IF current_count > L
         THEN [memory |-> [mem EXCEPT ![key] = kept],
               result |-> <<FALSE, current_count, 0>>]
       ELSE [memory |-> [mem EXCEPT ![key] = Append(kept, t)],
             result |-> <<TRUE, current_count + 1, L - (current_count + 1)>>]

\* the check with one deque for all the keys
InMemoryCheckShared(mem, key, t, L) ==
    LET kept == PopOld(mem[key], t - WindowSeconds)
        current_count == Len(kept)
    IN IF current_count >= L
         THEN [memory |-> [k \in DOMAIN mem |-> kept],
               result |-> <<FALSE, current_count, 0>>]
       ELSE [memory |-> [k \in DOMAIN mem |-> Append(kept, t)],
             result |-> <<TRUE, current_count + 1, L - (current_count + 1)>>]

\* InMemoryRateLimiter.check_rate_limit(key, limit, window_seconds) at time t;
\* nothing writes self.locks, so no key is ever locked
InMemoryCheck(mem, key, t, L) ==
    LET kept == PopOld(mem[key], t - WindowSeconds)
        current_count == Len(kept)
    IN IF current_count >= L
         THEN [memory |-> [mem EXCEPT ![key] = kept],
               result |-> <<FALSE, current_count, 0>>]
       ELSE [memory |-> [mem EXCEPT ![key] = Append(kept, t)],
             result |-> <<TRUE, current_count + 1, L - (current_count + 1)>>]

\* InMemoryRateLimiter.reset(key)
InMemoryReset(mem, key) == [mem EXCEPT ![key] = <<>>]

\* RateLimiter._check_redis_rate_limit when Redis answers: the pipeline drops
\* the scores up to window_start, counts, adds the request and sets the key's
\* time to live (window_seconds + 10, by when every score would be dropped
\* anyway); a refused request is taken out again. Every call has its own
\* time, so every member is its own.
CheckRedis(zs, key, t, L) ==
    LET kept == {score \in zs[key] : score > t - WindowSeconds}
        current_count == Cardinality(kept)
    IN IF current_count >= L
         THEN [zsets |-> [zs EXCEPT ![key] = kept],
               result |-> <<FALSE, current_count, 0>>]
       ELSE [zsets |-> [zs EXCEPT ![key] = kept \cup {t}],
             result |-> <<TRUE, current_count + 1, L - (current_count + 1)>>]

\* RateLimiter.check_rate_limit on the limiter st; with fails, Redis raises
\* RedisError and the limiter falls back to memory for good
RateLimiterCheck(st, key, t, L, fails) ==
    IF st.use_redis /\ ~fails
      THEN LET r == CheckRedis(st.zsets, key, t, L)
           IN [st |-> [st EXCEPT !.zsets = r.zsets],
               result |-> r.result, served |-> "redis"]
    ELSE LET m == InMemoryCheck(st.memory, key, t, L)
         IN [st |-> [st EXCEPT !.memory = m.memory, !.use_redis = FALSE],
             result |-> m.result, served |-> "memory"]

\* for key in keys: self.check_rate_limit(key, limit, window_seconds)
RECURSIVE CheckEach(_, _, _, _, _, _)
CheckEach(st, keys, t, L, failAt, outs) ==
    IF Len(outs) = Len(keys) THEN [st |-> st, outs |-> outs]
    ELSE LET j == Len(outs) + 1
             one == RateLimiterCheck(st, keys[j], t, L, failAt = j)
         IN CheckEach(one.st, keys, t, L, failAt,
                      Append(outs, [result |-> one.result,
                                    served |-> one.served]))

\* the results of key: those of its place in keys
ResultsOf(keys, outs) ==
    [k \in {keys[j] : j \in DOMAIN keys} |->
        LET j == CHOOSE i \in DOMAIN keys : keys[i] = k
        IN <<outs[j].result[2], outs[j].result[3]>>]

\* is_allowed of each key
AllowedOf(keys, outs) ==
    [k \in {keys[j] : j \in DOMAIN keys} |->
        LET j == CHOOSE i \in DOMAIN keys : keys[i] = k
        IN outs[j].result[1]]

\* check_multiple that lets the last key decide
CheckMultipleLast(st, keys, t, L, failAt) ==
    LET run == CheckEach(st, keys, t, L, failAt, <<>>)
    IN [st |-> run.st,
        all_allowed |-> run.outs[Len(keys)].result[1],
        results |-> ResultsOf(keys, run.outs),
        allowed |-> AllowedOf(keys, run.outs),
        served |-> [j \in DOMAIN keys |-> run.outs[j].served]]

\* RateLimiter.check_multiple(keys, limit, window_seconds)
check_multiple(st, keys, t, L, failAt) ==
    LET run == CheckEach(st, keys, t, L, failAt, <<>>)
    IN [st |-> run.st,
        all_allowed |-> \A j \in DOMAIN keys : run.outs[j].result[1],
        results |-> ResultsOf(keys, run.outs),
        allowed |-> AllowedOf(keys, run.outs),
        served |-> [j \in DOMAIN keys |-> run.outs[j].served]]

\* the limiter as one value
Limiter == [memory |-> memory, zsets |-> zsets, use_redis |-> use_redis]

\* the calls for key so far, with one more
Logged(h, key, t, result) ==
    [h EXCEPT ![key] = Append(@, [t |-> t, allowed |-> result[1]])]

\* InMemoryRateLimiter.check_rate_limit, called on the in-memory limiter
MemoryCheck(key, dt) ==
    /\ clock + dt <= MaxClock
    /\ clock' = clock + dt
    /\ LET m == InMemoryCheck(memory, key, clock', limit)
       IN /\ memory' = m.memory
          /\ history' = Logged(history, key, clock', m.result)
          /\ lastCheck' = <<[op |-> "check_rate_limit", keys |-> <<key>>,
                             t |-> clock', result |-> m.result,
                             served |-> <<"memory">>,
                             after_reset |-> fresh[key]]>>
    /\ fresh' = [fresh EXCEPT ![key] = FALSE]
    /\ UNCHANGED <<limit, zsets, use_redis>>
    /\ UNCHANGED notRlVars

\* InMemoryRateLimiter.reset, called on the in-memory limiter
MemoryReset(key) ==
    /\ memory' = InMemoryReset(memory, key)
    /\ history' = [history EXCEPT ![key] = <<>>]
    /\ fresh' = [fresh EXCEPT ![key] = TRUE]
    /\ lastCheck' = <<[op |-> "reset", keys |-> <<key>>, t |-> clock]>>
    /\ UNCHANGED <<clock, limit, zsets, use_redis>>
    /\ UNCHANGED notRlVars

\* RateLimiter.check_rate_limit
LimiterCheck(key, dt, fails) ==
    /\ clock + dt <= MaxLimiterClock
    /\ fails => use_redis
    /\ clock' = clock + dt
    /\ LET one == RateLimiterCheck(Limiter, key, clock', limit, fails)
       IN /\ memory' = one.st.memory
          /\ zsets' = one.st.zsets
          /\ use_redis' = one.st.use_redis
          /\ history' = Logged(history, key, clock', one.result)
          /\ lastCheck' = <<[op |-> "check_rate_limit", keys |-> <<key>>,
                             t |-> clock', result |-> one.result,
                             served |-> <<one.served>>,
                             after_reset |-> fresh[key]]>>
    /\ fresh' = [fresh EXCEPT ![key] = FALSE]
    /\ UNCHANGED limit
    /\ UNCHANGED notRlVars

\* RateLimiter.check_multiple; Redis raises at the failAt-th key, 0 for never
LimiterCheckMultiple(keys, dt, failAt) ==
    /\ clock + dt <= MaxLimiterClock
    /\ failAt # 0 => use_redis
    /\ clock' = clock + dt
    /\ LET all == check_multiple(Limiter, keys, clock', limit, failAt)
           listed == {keys[j] : j \in DOMAIN keys}
       IN /\ memory' = all.st.memory
          /\ zsets' = all.st.zsets
          /\ use_redis' = all.st.use_redis
          /\ history' = [k \in LimiterKeys |->
                IF k \in listed
                  THEN Append(history[k],
                              [t |-> clock', allowed |-> all.allowed[k]])
                  ELSE history[k]]
          /\ fresh' = [k \in LimiterKeys |-> fresh[k] /\ k \notin listed]
          /\ lastCheck' = <<[op |-> "check_multiple", keys |-> keys,
                             t |-> clock', all_allowed |-> all.all_allowed,
                             results |-> all.results, served |-> all.served]>>
    /\ UNCHANGED limit
    /\ UNCHANGED notRlVars

\* RateLimiter.reset(key); with fails, the DELETE raises RedisError, which
\* reset passes over
LimiterReset(key, fails) ==
    /\ fails => use_redis
    /\ zsets' = IF use_redis /\ ~fails THEN [zsets EXCEPT ![key] = {}]
                ELSE zsets
    /\ memory' = InMemoryReset(memory, key)
    /\ history' = [history EXCEPT ![key] = <<>>]
    /\ fresh' = [fresh EXCEPT ![key] = TRUE]
    /\ lastCheck' = <<[op |-> "reset", keys |-> <<key>>, t |-> clock]>>
    /\ UNCHANGED <<clock, limit, use_redis>>
    /\ UNCHANGED notRlVars

\* RateLimiter.__init__: use_redis tells whether Redis answered the ping
LimiterInit ==
    /\ clock = 0
    /\ limit \in 1..MaxLimit
    /\ memory = [k \in LimiterKeys |-> <<>>]
    /\ zsets = [k \in LimiterKeys |-> {}]
    /\ use_redis \in BOOLEAN
    /\ history = [k \in LimiterKeys |-> <<>>]
    /\ fresh = [k \in LimiterKeys |-> FALSE]
    /\ lastCheck = <<>>

InitMemory ==
    /\ CalIdle /\ TurnIdle /\ MetricsIdle /\ CodesIdle /\ AuthIdle
    /\ LimiterInit /\ IngestIdle /\ CacheIdle /\ DevIdle /\ SkiIdle /\ RaceIdle /\ ~use_redis

MemoryCheckAny == \E k \in LimiterKeys, dt \in 1..MaxStep : MemoryCheck(k, dt)

MemoryResetAny == \E k \in LimiterKeys : MemoryReset(k)

NextMemory == MemoryCheckAny \/ MemoryResetAny

SpecMemory == InitMemory /\ [][NextMemory]_vars

InitLimiter ==
    CalIdle /\ TurnIdle /\ MetricsIdle /\ CodesIdle /\ AuthIdle /\ LimiterInit /\ IngestIdle /\ CacheIdle /\ DevIdle /\ SkiIdle /\ RaceIdle

LimiterCheckAny ==
    \E k \in LimiterKeys, dt \in 1..MaxStep, fails \in BOOLEAN :
       LimiterCheck(k, dt, fails)

LimiterCheckMultipleAny ==
    \E keys \in KeyLists, dt \in 1..MaxStep, failAt \in 0..MaxKeys :
       failAt <= Len(keys) /\ LimiterCheckMultiple(keys, dt, failAt)

LimiterResetAny ==
    \E k \in LimiterKeys, fails \in BOOLEAN : LimiterReset(k, fails)

NextLimiter == LimiterCheckAny \/ LimiterCheckMultipleAny \/ LimiterResetAny

SpecLimiter == InitLimiter /\ [][NextLimiter]_vars

\* ------------------------------------------------------------------------
\* Properties of the rate limiter
\* ------------------------------------------------------------------------
\* this step is a check of one key
ChecksKey(key) ==
    /\ clock' > clock
    /\ lastCheck'[1].op = "check_rate_limit"
    /\ lastCheck'[1].keys = <<key>>

\* C16: from an empty history, the i-th call for a key inside one window
\* returns (True, i, L - i) for i up to the limit L, and (False, L, 0) after.
C16_CountsUpToLimit ==
    [][\A k \in LimiterKeys :
          ChecksKey(k) =>
             LET h == history'[k]
                 i == Len(h)
             IN clock' - h[1].t <= WindowSeconds =>
                   lastCheck'[1].result =
                      IF i <= limit THEN <<TRUE, i, limit - i>>
                      ELSE <<FALSE, limit, 0>>]_vars

\* the call after the limit was reached, within the window of the first
C16_Witness ==
    /\ lastCheck # <<>>
    /\ lastCheck[1].op = "check_rate_limit"
    /\ LET h == history[lastCheck[1].keys[1]]
       IN /\ Len(h) = limit + 1
          /\ clock - h[1].t <= WindowSeconds
          /\ lastCheck[1].result = <<FALSE, limit, 0>>

\* the allowed calls for key so far that are not older than WindowSeconds at t
Recent(key, t) ==
    {i \in DOMAIN history[key] :
        history[key][i].allowed /\ history[key][i].t >= t - WindowSeconds}

\* C17: the window slides: a call is allowed exactly when fewer than limit
\* of the key's allowed requests are still inside the window, and a call made
\* after all of them have left returns (True, 1, limit - 1).
C17_WindowSlides ==
    [][\A k \in LimiterKeys :
          ChecksKey(k) =>
             LET inside == Cardinality(Recent(k, clock'))
             IN /\ lastCheck'[1].result[1] <=> inside < limit
                /\ lastCheck'[1].result[1] =>
                      lastCheck'[1].result[2] = inside + 1
                /\ inside = 0 =>
                      lastCheck'[1].result = <<TRUE, 1, limit - 1>>]_vars

\* a key that was refused is allowed again while one of its requests is still
\* inside the window
C17_Witness ==
    /\ lastCheck # <<>>
    /\ lastCheck[1].op = "check_rate_limit"
    /\ lastCheck[1].result[1]
    /\ lastCheck[1].result[2] > 1
    /\ \E i \in DOMAIN history[lastCheck[1].keys[1]] :
          ~history[lastCheck[1].keys[1]][i].allowed

\* the allowed calls for key in the WindowSeconds that end with its i-th call
AllowedUpTo(key, i) ==
    {j \in DOMAIN history[key] :
        /\ history[key][j].allowed
        /\ history[key][j].t > history[key][i].t - WindowSeconds
        /\ history[key][j].t <= history[key][i].t}

\* C18: for any key at most limit requests are allowed in any interval of
\* WindowSeconds, whichever backend serves each call.
C18_AtMostLimit ==
    \A k \in LimiterKeys : \A i \in DOMAIN history[k] :
       Cardinality(AllowedUpTo(k, i)) <= limit

\* more than limit requests of one key were allowed inside one window, the
\* later ones by the in-memory limiter after Redis had served the earlier
C18_Exceeded ==
    /\ ~use_redis
    /\ \E k \in LimiterKeys :
          /\ zsets[k] # {}
          /\ memory[k] # <<>>
          /\ Cardinality(AllowedUpTo(k, Len(history[k]))) > limit

\* the requests for key that the backend holds inside the window at time t
Held(mem, zs, be, key, t) ==
    IF be = "redis"
      THEN Cardinality({score \in zs[key] : score > t - WindowSeconds})
      ELSE Len(PopOld(mem[key], t - WindowSeconds))

\* C19: check_multiple returns all_allowed = True iff every given key is
\* within its limit in the backend that serves it, and its result map holds
\* the (current_count, remaining) of every given key.
C19_AllKeysDecide ==
    [][(clock' > clock /\ lastCheck'[1].op = "check_multiple") =>
          LET call == lastCheck'[1]
              places == DOMAIN call.keys
          IN /\ call.all_allowed <=>
                   \A j \in places :
                      Held(memory, zsets, call.served[j], call.keys[j],
                           call.t) < limit
             /\ DOMAIN call.results = {call.keys[j] : j \in places}
             /\ \A j \in places :
                   LET current == Held(memory', zsets', call.served[j],
                                       call.keys[j], call.t)
                   IN call.results[call.keys[j]]
                         = <<current, limit - current>>]_vars

\* two keys were checked together: the first was within its limit, the second
\* was not
C19_Witness ==
    /\ lastCheck # <<>>
    /\ lastCheck[1].op = "check_multiple"
    /\ Len(lastCheck[1].keys) = 2
    /\ ~lastCheck[1].all_allowed
    /\ lastCheck[1].results[lastCheck[1].keys[1]][1] = 1
    /\ lastCheck[1].results[lastCheck[1].keys[2]] = <<limit, 0>>
    /\ ~history[lastCheck[1].keys[2]][Len(history[lastCheck[1].keys[2]])].allowed

\* C20: after reset(key), whatever the key's history, the next
\* check_rate_limit for it returns (True, 1, limit - 1).
C20_ResetRestoresQuota ==
    (/\ lastCheck # <<>>
     /\ lastCheck[1].op = "check_rate_limit"
     /\ lastCheck[1].after_reset)
       => lastCheck[1].result = <<TRUE, 1, limit - 1>>

\* the first check after a reset found the key's earlier requests still there
C20_QuotaNotRestored ==
    /\ lastCheck # <<>>
    /\ lastCheck[1].op = "check_rate_limit"
    /\ lastCheck[1].after_reset
    /\ lastCheck[1].served = <<"redis">>
    /\ lastCheck[1].result # <<TRUE, 1, limit - 1>>

\* the in-memory limiter with only the requests of key in it
OnlyKey(mem, key) == [k \in LimiterKeys |-> IF k = key THEN mem[k] ELSE <<>>]

\* C21: rate-limit keys are independent: a check_rate_limit or reset on one
\* key changes the result of no later call on another key, and the result of
\* a check is the one the key would get with no other key ever seen.
C21_KeysIndependent ==
    [][\A k \in LimiterKeys :
          (lastCheck' # lastCheck /\ lastCheck'[1].keys = <<k>>) =>
             /\ \A j \in LimiterKeys \ {k} : \A t \in clock'..MaxClock :
                   InMemoryCheck(memory', j, t, limit).result
                      = InMemoryCheck(memory, j, t, limit).result
             /\ lastCheck'[1].op = "check_rate_limit" =>
                   lastCheck'[1].result
                      = InMemoryCheck(OnlyKey(memory, k), k, clock',
                                      limit).result]_vars

\* the first call of one key is allowed while the other key is full and was
\* refused at its last call
C21_Witness ==
    /\ lastCheck # <<>>
    /\ lastCheck[1].op = "check_rate_limit"
    /\ lastCheck[1].result = <<TRUE, 1, limit - 1>>
    /\ \E j \in LimiterKeys \ {lastCheck[1].keys[1]} :
          /\ Len(PopOld(memory[j], clock - WindowSeconds)) = limit
          /\ history[j] # <<>>
          /\ ~history[j][Len(history[j])].allowed

\* ------------------------------------------------------------------------
\* The two paths of RateLimiter side by side
\* ------------------------------------------------------------------------
\* the same timed call made on a limiter Redis serves and on one memory
\* serves
BothCheck(key, dt) ==
    /\ clock + dt <= MaxClock
    /\ clock' = clock + dt
    /\ LET r == CheckRedis(zsets, key, clock', limit)
           m == InMemoryCheck(memory, key, clock', limit)
       IN /\ zsets' = r.zsets
          /\ memory' = m.memory
          /\ lastCheck' = <<[op |-> "both", keys |-> <<key>>, t |-> clock',
                             result |-> r.result,
                             memory_result |-> m.result]>>
    /\ UNCHANGED <<limit, use_redis, history, fresh>>
    /\ UNCHANGED notRlVars

BothCheckAny == \E k \in LimiterKeys, dt \in 1..MaxStep : BothCheck(k, dt)

NextBoth == BothCheckAny

SpecBoth == InitLimiter /\ [][NextBoth]_vars

\* C30: for the same sequence of timed calls on a key the Redis path and the
\* in-memory path return the same (is_allowed, current_count, remaining) at
\* every step.
C30_SamePaths ==
    (lastCheck # <<>> /\ lastCheck[1].op = "both")
       => lastCheck[1].result = lastCheck[1].memory_result

\* a request exactly window_seconds old: Redis has dropped it and allows the
\* call, the in-memory limiter still counts it and refuses
C30_PathsDiffer ==
    /\ lastCheck # <<>>
    /\ lastCheck[1].op = "both"
    /\ lastCheck[1].result[1]
    /\ ~lastCheck[1].memory_result[1]
    /\ \E i \in DOMAIN memory[lastCheck[1].keys[1]] :
          memory[lastCheck[1].keys[1]][i] = lastCheck[1].t - WindowSeconds

\* ------------------------------------------------------------------------
\* The end of a code-send rate-limit window
\* ------------------------------------------------------------------------
\* the window of phone, counted from its first send, is over before the step
WindowOver(phone) ==
    /\ window[phone] # <<>>
    /\ now >= window[phone][1].start + rate_limit_minutes * 60

\* C27: once rate_limit_minutes * 60 seconds have passed since the first
\* counted send of a phone's window, a check_rate_limit that the store
\* answers counts from 1 again and returns True, with Redis and with
\* MockRedis.
C27_AllowedAgain ==
    [][\A p \in Phones :
          (/\ ChecksRate(p)
           /\ WindowOver(p)
           /\ lastCall'[1].limit[1].current # <<>>)
             => lastCall'[1].limit[1] = [current |-> <<1>>, result |-> TRUE]]_vars

\* with MockRedis a phone is still refused after its window is over
C27_StillBlocked ==
    /\ backend = "mock"
    /\ lastCall # <<>>
    /\ lastCall[1].op \in {"check_rate_limit", "send_code"}
    /\ lastCall[1].limit # <<>>
    /\ ~lastCall[1].limit[1].result
    /\ lastCall[1].limit[1].current[1] > rate_limit_count
    /\ window[lastCall[1].phone] # <<>>
    /\ now >= window[lastCall[1].phone][1].start + rate_limit_minutes * 60

\* ------------------------------------------------------------------------
\* Concurrent verify_code calls
\* ------------------------------------------------------------------------
\* login_with_verification_code is a plain def, so the server runs each
\* request in its own worker thread; between two commands that a call sends
\* to the store, the commands of other calls can run.
Callers == {"c1", "c2"}

\* a call returns
Returned25(phone, input_code, r) ==
    lastCall' = <<[op |-> "verify_code", phone |-> phone,
                   code |-> input_code, result |-> r]>>

\* verify_code up to its GET: without a value the call returns False, with
\* one it goes on with the value it has read
VerifyRead(c, phone, input_code) ==
    /\ verifying[c] = <<>>
    /\ calls < MaxCalls
    /\ calls' = calls + 1
    /\ LET key == CodeKey(phone)
           data_str == Get(store, key, now)
       IN /\ store' = Expired(store, key, now)
          /\ IF data_str = <<>>
               THEN /\ Returned25(phone, input_code, FALSE)
                    /\ UNCHANGED verifying
             ELSE /\ verifying' = [verifying EXCEPT ![c] =
                        <<[phone |-> phone, input_code |-> input_code,
                           data |-> data_str[1]]>>]
                  /\ UNCHANGED lastCall
    /\ UNCHANGED <<now, compared, consumed, backend, window, sms>>
    /\ UNCHANGED <<granted, wrong>>
    /\ UNCHANGED notRaceVars

\* verify_code from the value it has read: the comparison, then the DELETE or
\* the SETEX of that value with one more attempt
VerifyWrite(c) ==
    /\ verifying[c] # <<>>
    /\ verifying' = [verifying EXCEPT ![c] = <<>>]
    /\ LET phone == verifying[c][1].phone
           input_code == verifying[c][1].input_code
           data == verifying[c][1].data
           key == CodeKey(phone)
       IN IF AttemptsUsedUp(data)
            THEN /\ Returned25(phone, input_code, FALSE)
                 /\ store' = Delete(store, key)
                 /\ UNCHANGED <<granted, wrong>>
          ELSE IF data.code = input_code
            THEN /\ Returned25(phone, input_code, TRUE)
                 /\ store' = AfterMatch(store, key)
                 /\ granted' = [granted EXCEPT ![phone] = @ + 1]
                 /\ UNCHANGED wrong
          ELSE /\ Returned25(phone, input_code, FALSE)
               /\ store' = Setex(store, key, expire_seconds,
                                 [data EXCEPT !.attempts = @ + 1], now)
               /\ wrong' = [wrong EXCEPT ![phone] = @ + 1]
               /\ UNCHANGED granted
    /\ UNCHANGED <<now, calls, compared, consumed, backend, window, sms>>
    /\ UNCHANGED notRaceVars

\* store_code for a phone that has had no code yet, so that every guess for
\* the phone is a guess at this one code
StoreFirst(phone, code) ==
    /\ store[CodeKey(phone)] = <<>>
    /\ granted[phone] = 0 /\ wrong[phone] = 0
    /\ \A c \in Callers :
          IF verifying[c] = <<>> THEN TRUE ELSE verifying[c][1].phone # phone
    /\ StoreCode(phone, code)

RaceInit ==
    /\ verifying = [c \in Callers |-> <<>>]
    /\ granted = [p \in Phones |-> 0]
    /\ wrong = [p \in Phones |-> 0]

InitRace ==
    /\ CalIdle /\ TurnIdle /\ MetricsIdle /\ CodesInit /\ AuthIdle
    /\ LimiterIdle /\ IngestIdle /\ CacheIdle /\ DevIdle /\ SkiIdle /\ RaceInit

StoreFirstAny == \E p \in Phones, code \in Codes : StoreFirst(p, code)

VerifyReadAny ==
    \E c \in Callers, p \in Phones, code \in Codes : VerifyRead(c, p, code)

VerifyWriteAny == \E c \in Callers : VerifyWrite(c)

NextRace == StoreFirstAny \/ VerifyReadAny \/ VerifyWriteAny

SpecRace == InitRace /\ [][NextRace]_vars

\* C25: under concurrent verify_code calls for one phone, one stored code
\* yields at most one True result and at most max_attempts wrong guesses are
\* compared with it.
C25_OneTrueBoundedGuesses ==
    \A p \in Phones : granted[p] <= 1 /\ wrong[p] <= max_attempts

\* two calls have both read the code before either deleted it, and both
\* returned True
C25_TwoGranted ==
    /\ \E p \in Phones : granted[p] = 2
    /\ \A c \in Callers : verifying[c] = <<>>

\* ------------------------------------------------------------------------
\* sessions.py: start_session and finish_session
\* ------------------------------------------------------------------------
\* the ids the database gives to new skiing sessions
SkiIds == {"s1", "s2"}

\* payload.session_id: an id of SkiIds, a UUID of no session, or no UUID
SkiIdInputs == SkiIds \cup {"s9", "not-a-uuid"}

SkiTimes == 0..MaxSkiTime

\* finish_session without the check of session_status
FinishAnyStatus(rows, user, session_id, end_time) ==
    IF session_id = "not-a-uuid" THEN [rows |-> rows, status |-> 400]
    ELSE IF session_id \notin SkiIds \/ rows[session_id] = <<>>
      THEN [rows |-> rows, status |-> 404]
    ELSE LET ski_sess == rows[session_id][1]
         IN IF ski_sess.user_id # user THEN [rows |-> rows, status |-> 403]
            ELSE IF end_time < ski_sess.start_time
              THEN [rows |-> rows, status |-> 400]
            ELSE [rows |-> [rows EXCEPT ![session_id] =
                     <<[ski_sess EXCEPT
                          !.end_time = <<end_time>>,
                          !.duration_seconds =
                              <<end_time - ski_sess.start_time>>,
                          !.session_status = "completed"]>>],
                  status |-> 200]

\* finish_session(payload) for current_user: the rows after it and the HTTP
\* status of the answer
finish_session(rows, user, session_id, end_time) ==
    IF session_id = "not-a-uuid" THEN [rows |-> rows, status |-> 400]
    ELSE IF session_id \notin SkiIds \/ rows[session_id] = <<>>
      THEN [rows |-> rows, status |-> 404]
    ELSE LET ski_sess == rows[session_id][1]
             duration == end_time - ski_sess.start_time
         IN IF ski_sess.user_id # user THEN [rows |-> rows, status |-> 403]
            ELSE IF ski_sess.session_status # "active"
              THEN [rows |-> rows, status |-> 409]
            ELSE IF end_time < ski_sess.start_time
              THEN [rows |-> rows, status |-> 400]
            ELSE [rows |-> [rows EXCEPT ![session_id] =
                     <<[ski_sess EXCEPT
                          !.end_time = <<end_time>>,
                          !.duration_seconds =
                              <<IF duration < 0 THEN 0 ELSE duration>>,
                          !.session_status = "completed"]>>],
                  status |-> 200]

\* start_session(payload) for current_user
StartSession(user, device_id, start_time) ==
    /\ LET answer(st) == lastSki' = <<[op |-> "start", user |-> user,
                                       status |-> st]>>
       IN IF device_id \notin Devices
            THEN answer(404) /\ UNCHANGED <<skiSessions, finished>>
          ELSE IF <<user, device_id>> \notin bindings
            THEN answer(403) /\ UNCHANGED <<skiSessions, finished>>
          ELSE /\ \E id \in SkiIds :
                    /\ skiSessions[id] = <<>>
                    /\ skiSessions' = [skiSessions EXCEPT ![id] =
                          <<[user_id |-> user, device_id |-> device_id,
                             start_time |-> start_time,
                             session_status |-> "active",
                             end_time |-> <<>>,
                             duration_seconds |-> <<>>]>>]
               /\ answer(200)
               /\ UNCHANGED finished
    /\ UNCHANGED notSkiVars

\* finish_session(payload) for current_user
FinishSession(user, session_id, end_time) ==
    /\ LET out == finish_session(skiSessions, user, session_id, end_time)
       IN /\ skiSessions' = out.rows
          /\ finished' = IF out.status = 200
                           THEN [finished EXCEPT ![session_id] = @ + 1]
                           ELSE finished
          /\ lastSki' = <<[op |-> "finish", user |-> user,
                           session_id |-> session_id, end_time |-> end_time,
                           status |-> out.status]>>
    /\ UNCHANGED notSkiVars

SkiInit ==
    /\ skiSessions = [id \in SkiIds |-> <<>>]
    /\ finished = [id \in SkiIds |-> 0]
    /\ lastSki = <<>>

InitSki ==
    /\ CalIdle /\ TurnIdle /\ MetricsIdle /\ CodesIdle /\ AuthIdle
    /\ LimiterIdle /\ IngestIdle /\ CacheIdle /\ DevIdle /\ RaceIdle /\ SkiInit

StartSessionAny ==
    \E u \in Users, d \in DeviceIds, t \in SkiTimes : StartSession(u, d, t)

FinishSessionAny ==
    \E u \in Users, id \in SkiIdInputs, t \in SkiTimes :
       FinishSession(u, id, t)

NextSki == StartSessionAny \/ FinishSessionAny

SpecSki == InitSki /\ [][NextSki]_vars

\* the answer to the finish request of this step is as the code decides it,
\* where anyCaller tells whether 409 is claimed for every caller or for the
\* owner only
FinishAnswered(anyCaller) ==
    LET id == lastSki'[1].session_id
        user == lastSki'[1].user
        end_time == lastSki'[1].end_time
        status == lastSki'[1].status
        known == IF id \in SkiIds THEN skiSessions[id] # <<>> ELSE FALSE
    IN /\ ~known => status # 200 /\ skiSessions' = skiSessions
       /\ known =>
            LET row == skiSessions[id][1]
                owner == row.user_id = user
                active == row.session_status = "active"
            IN /\ status = 200 <=>
                    owner /\ active /\ end_time >= row.start_time
               /\ status = 200 =>
                    /\ skiSessions'[id][1].session_status = "completed"
                    /\ skiSessions'[id][1].end_time = <<end_time>>
                    /\ skiSessions'[id][1].duration_seconds
                          = <<end_time - row.start_time>>
                    /\ end_time - row.start_time >= 0
                    /\ \A other \in SkiIds \ {id} :
                          skiSessions'[other] = skiSessions[other]
               /\ status # 200 => skiSessions' = skiSessions
               /\ ~owner => status = 403
               /\ ((anyCaller \/ owner) /\ ~active) => status = 409
               /\ (owner /\ active /\ end_time < row.start_time) =>
                     status = 400

RowIds == 1..MaxRows

\* select(UserDevice).where(user_id == ..., device_id == ...).first(): the
\* rows it can return
BindingsOf(rows, user, device_id) ==
    {row \in rows : row.user_id = user /\ row.device_id = device_id}

\* update(UserDevice).where(user_id == ...).values(is_primary=False)
ClearPrimary(rows, user) ==
    {IF row.user_id = user THEN [row EXCEPT !.is_primary = FALSE] ELSE row :
       row \in rows}

\* bind_device that leaves the other bindings as they are
BindKeepsPrimary(rows, user, device_id, is_primary, id) ==
    IF device_id \notin Devices THEN [rows |-> rows, status |-> 404]
    ELSE IF BindingsOf(rows, user, device_id) # {}
      THEN [rows |-> rows, status |-> 409]
    ELSE [rows |-> rows \cup {[id |-> id, user_id |-> user,
                               device_id |-> device_id,
                               is_primary |-> is_primary]},
          status |-> 200]

\* bind_device(request) for current_user; id is the id of the new row
bind_device(rows, user, device_id, is_primary, id) ==
    IF device_id \notin Devices THEN [rows |-> rows, status |-> 404]
    ELSE IF BindingsOf(rows, user, device_id) # {}
      THEN [rows |-> rows, status |-> 409]
    ELSE [rows |-> (IF is_primary THEN ClearPrimary(rows, user) ELSE rows)
                      \cup {[id |-> id, user_id |-> user,
                             device_id |-> device_id,
                             is_primary |-> is_primary]},
          status |-> 200]

\* unbind_device(request) for current_user; found is the row .first() gave
unbind_device(rows, user, device_id, found) ==
    IF device_id \notin Devices THEN [rows |-> rows, status |-> 404]
    ELSE IF BindingsOf(rows, user, device_id) = {}
      THEN [rows |-> rows, status |-> 404]
    ELSE [rows |-> rows \ {found}, status |-> 200]

\* set_primary_device(device_id) for current_user; found is the row .first()
\* gave
set_primary_device(rows, user, device_id, found) ==
    IF device_id \notin Devices THEN [rows |-> rows, status |-> 404]
    ELSE IF BindingsOf(rows, user, device_id) = {}
      THEN [rows |-> rows, status |-> 403]
    ELSE [rows |-> {IF row.id = found.id
                      THEN [row EXCEPT !.is_primary = TRUE] ELSE row :
                    row \in ClearPrimary(rows, user)},
          status |-> 200]

\* the answer of a device request
DevAnswer(op, user, device_id, status) ==
    lastDev' = <<[op |-> op, user |-> user, device_id |-> device_id,
                  status |-> status]>>

\* the rows .first() can give, or a row of no table when there is none
Found(rows, user, device_id) ==
    IF BindingsOf(rows, user, device_id) = {}
      THEN {[id |-> 0, user_id |-> user, device_id |-> device_id,
             is_primary |-> FALSE]}
      ELSE BindingsOf(rows, user, device_id)

\* the id of the next new row: the table holds MaxRows rows at most
NewId(rows) ==
    LET free == {id \in RowIds : \A row \in rows : row.id # id}
    IN IF free = {} THEN 0
       ELSE CHOOSE id \in free : \A other \in free : id <= other

BindDevice(user, device_id, is_primary) ==
    /\ LET id == NewId(userDevices)
           out == bind_device(userDevices, user, device_id, is_primary, id)
       IN /\ out.status = 200 => id # 0
          /\ userDevices' = out.rows
          /\ DevAnswer("bind", user, device_id, out.status)
    /\ UNCHANGED <<deviceStatus, tx>>
    /\ UNCHANGED notDevVars

UnbindDevice(user, device_id) ==
    /\ \E found \in Found(userDevices, user, device_id) :
         LET out == unbind_device(userDevices, user, device_id, found)
         IN /\ userDevices' = out.rows
            /\ DevAnswer("unbind", user, device_id, out.status)
    /\ UNCHANGED <<deviceStatus, tx>>
    /\ UNCHANGED notDevVars

SetPrimaryDevice(user, device_id) ==
    /\ \E found \in Found(userDevices, user, device_id) :
         LET out == set_primary_device(userDevices, user, device_id, found)
         IN /\ userDevices' = out.rows
            /\ DevAnswer("set_primary", user, device_id, out.status)
    /\ UNCHANGED <<deviceStatus, tx>>
    /\ UNCHANGED notDevVars

\* the bindings of the calibration endpoint's table, with or without a
\* primary device each
DevInit ==
    /\ \E p1, p2 \in BOOLEAN :
          userDevices = {[id |-> 1, user_id |-> "u1", device_id |-> "d1",
                          is_primary |-> p1],
                         [id |-> 2, user_id |-> "u2", device_id |-> "d2",
                          is_primary |-> p2]}
    /\ deviceStatus = [d \in Devices |-> "disconnected"]
    /\ tx = [r \in Requests |-> <<>>]
    /\ lastDev = <<>>

InitDev ==
    /\ CalIdle /\ TurnIdle /\ MetricsIdle /\ CodesIdle /\ AuthIdle
    /\ LimiterIdle /\ IngestIdle /\ CacheIdle /\ RaceIdle /\ SkiIdle /\ DevInit

BindDeviceAny ==
    \E u \in Users, d \in DeviceIds, p \in BOOLEAN : BindDevice(u, d, p)

UnbindDeviceAny == \E u \in Users, d \in DeviceIds : UnbindDevice(u, d)

SetPrimaryDeviceAny ==
    \E u \in Users, d \in DeviceIds : SetPrimaryDevice(u, d)

NextDev == BindDeviceAny \/ UnbindDeviceAny \/ SetPrimaryDeviceAny

SpecDev == InitDev /\ [][NextDev]_vars

\* the primary bindings of a user
PrimaryOf(user) ==
    {row \in userDevices : row.user_id = user /\ row.is_primary}

\* C23: after any sequence of bind_device, unbind_device and
\* set_primary_device requests executed one at a time, every user has at
\* most one device binding with is_primary = True.
C23_OnePrimary == \A u \in Users : Cardinality(PrimaryOf(u)) <= 1

\* a user with two bindings has bound the second as primary, and the first
\* is not primary
C23_Witness ==
    /\ lastDev # <<>>
    /\ lastDev[1].op = "bind" /\ lastDev[1].status = 200
    /\ \E row \in PrimaryOf(lastDev[1].user) :
          row.device_id = lastDev[1].device_id
    /\ \E row \in userDevices :
          /\ row.user_id = lastDev[1].user
          /\ row.device_id # lastDev[1].device_id
          /\ ~row.is_primary

\* ------------------------------------------------------------------------
\* Concurrent bind_device and set_primary_device requests of one user
\* ------------------------------------------------------------------------
\* The routes are plain defs, each request runs in its own worker thread with
\* its own database session, and user_devices has no unique constraint
\* (models.py:492-505). Each statement reads what is committed; the UPDATE
\* that clears is_primary locks the rows it writes until its transaction
\* commits, and here it runs only when no other transaction holds one of
\* them, so every step below is a step the database can take.
RaceUser == "u1"

\* the rows another request's transaction has locked
LockedByOthers(r) ==
    UNION {tx[q][1].cleared : q \in {x \in Requests \ {r} : tx[x] # <<>>}}

\* bind_device up to its two SELECTs
BindBegin(r, device_id, is_primary) ==
    /\ tx[r] = <<>>
    /\ IF device_id \notin Devices
         THEN DevAnswer("bind", RaceUser, device_id, 404) /\ UNCHANGED tx
       ELSE IF BindingsOf(userDevices, RaceUser, device_id) # {}
         THEN DevAnswer("bind", RaceUser, device_id, 409) /\ UNCHANGED tx
       ELSE /\ tx' = [tx EXCEPT ![r] =
                  <<[op |-> "bind", device_id |-> device_id,
                     is_primary |-> is_primary, found |-> 0,
                     stage |-> IF is_primary THEN "update" ELSE "commit",
                     cleared |-> {}]>>]
            /\ UNCHANGED lastDev
    /\ UNCHANGED <<userDevices, deviceStatus>>
    /\ UNCHANGED notDevVars

\* set_primary_device up to its two SELECTs
SetPrimaryBegin(r, device_id) ==
    /\ tx[r] = <<>>
    /\ IF device_id \notin Devices
         THEN DevAnswer("set_primary", RaceUser, device_id, 404)
              /\ UNCHANGED tx
       ELSE IF BindingsOf(userDevices, RaceUser, device_id) = {}
         THEN DevAnswer("set_primary", RaceUser, device_id, 403)
              /\ UNCHANGED tx
       ELSE /\ \E row \in BindingsOf(userDevices, RaceUser, device_id) :
                 tx' = [tx EXCEPT ![r] =
                    <<[op |-> "set_primary", device_id |-> device_id,
                       is_primary |-> TRUE, found |-> row.id,
                       stage |-> "update", cleared |-> {}]>>]
            /\ UNCHANGED lastDev
    /\ UNCHANGED <<userDevices, deviceStatus>>
    /\ UNCHANGED notDevVars

\* update(UserDevice).where(user_id == current_user.id).values(False): the
\* rows of the user, as committed now, are written and locked
ClearBegin(r) ==
    /\ tx[r] # <<>>
    /\ tx[r][1].stage = "update"
    /\ LET rows == {row.id : row \in {x \in userDevices :
                                          x.user_id = RaceUser}}
       IN /\ rows \cap LockedByOthers(r) = {}
          /\ tx' = [tx EXCEPT ![r] =
                       <<[@[1] EXCEPT !.stage = "commit", !.cleared = rows]>>]
    /\ UNCHANGED <<userDevices, deviceStatus, lastDev>>
    /\ UNCHANGED notDevVars

\* the rows with the transaction's UPDATE applied
Cleared(rows, ids) ==
    {IF row.id \in ids THEN [row EXCEPT !.is_primary = FALSE] ELSE row :
       row \in rows}

\* session.add(...); session.commit(), and the response
DevCommit(r) ==
    /\ tx[r] # <<>>
    /\ tx[r][1].stage = "commit"
    /\ tx' = [tx EXCEPT ![r] = <<>>]
    /\ LET t == tx[r][1]
           rows == Cleared(userDevices, t.cleared)
       IN IF t.op = "bind"
            THEN /\ NewId(userDevices) # 0
                 /\ userDevices' = rows \cup
                       {[id |-> NewId(userDevices), user_id |-> RaceUser,
                         device_id |-> t.device_id,
                         is_primary |-> t.is_primary]}
                 /\ DevAnswer("bind", RaceUser, t.device_id, 200)
          ELSE IF \E row \in userDevices : row.id = t.found
            THEN /\ userDevices' =
                       {IF row.id = t.found
                          THEN [row EXCEPT !.is_primary = TRUE] ELSE row :
                        row \in rows}
                 /\ DevAnswer("set_primary", RaceUser, t.device_id, 200)
          ELSE \* the row is gone: the UPDATE matches no row, the ORM raises
               \* and the transaction is rolled back
               /\ UNCHANGED userDevices
               /\ DevAnswer("set_primary", RaceUser, t.device_id, 500)
    /\ UNCHANGED deviceStatus
    /\ UNCHANGED notDevVars

\* unbind_device as a whole, between the statements of the others
UnbindBetween(device_id) ==
    /\ \A row \in BindingsOf(userDevices, RaceUser, device_id) :
          \A r \in Requests : tx[r] # <<>> => row.id \notin tx[r][1].cleared
    /\ UnbindDevice(RaceUser, device_id)

BindBeginAny ==
    \E r \in Requests, d \in DeviceIds, p \in BOOLEAN : BindBegin(r, d, p)

SetPrimaryBeginAny ==
    \E r \in Requests, d \in DeviceIds : SetPrimaryBegin(r, d)

ClearBeginAny == \E r \in Requests : ClearBegin(r)

DevCommitAny == \E r \in Requests : DevCommit(r)

UnbindBetweenAny == \E d \in Devices : UnbindBetween(d)

NextDevRace ==
    \/ BindBeginAny \/ SetPrimaryBeginAny \/ ClearBeginAny \/ DevCommitAny
    \/ UnbindBetweenAny

SpecDevRace == InitDev /\ [][NextDevRace]_vars

\* no (user, device) pair is bound twice
BoundOnce ==
    \A a, b \in userDevices :
       (a.user_id = b.user_id /\ a.device_id = b.device_id) => a = b

\* C24: concurrent bind_device and set_primary_device requests of one user
\* keep the binding invariants in every interleaving: no (user, device) pair
\* is bound twice and no user has two primary devices.
C24_InvariantsKept == BoundOnce /\ C23_OnePrimary

\* two bind requests for the same device have both found no binding and both
\* inserted one
C24_BoundTwice ==
    /\ ~BoundOnce
    /\ lastDev # <<>>
    /\ lastDev[1].op = "bind" /\ lastDev[1].status = 200
    /\ \A r \in Requests : tx[r] = <<>>

\* ------------------------------------------------------------------------
\* devices.py: the routes that need a binding to the device
\* ------------------------------------------------------------------------
\* request.connection_status: absent, one of valid_statuses, or another text
StatusUpdates == {"absent", "connected", "disconnected", "other"}

\* get_device_detail(device_id) for current_user: the HTTP status
get_device_detail(rows, user, device_id) ==
    IF device_id \notin Devices THEN 404
    ELSE IF BindingsOf(rows, user, device_id) = {} THEN 403
    ELSE 200

\* update_device_status without the look at the binding
UpdateStatusUnchecked(rows, devs, user, device_id, update) ==
    IF device_id \notin Devices THEN [devices |-> devs, status |-> 404]
    ELSE IF update = "absent" THEN [devices |-> devs, status |-> 200]
    ELSE IF update = "other" THEN [devices |-> devs, status |-> 400]
    ELSE [devices |-> [devs EXCEPT ![device_id] = update], status |-> 200]

\* update_device_status(device_id, request) for current_user
update_device_status(rows, devs, user, device_id, update) ==
    IF device_id \notin Devices THEN [devices |-> devs, status |-> 404]
    ELSE IF BindingsOf(rows, user, device_id) = {}
      THEN [devices |-> devs, status |-> 403]
    ELSE IF update = "absent" THEN [devices |-> devs, status |-> 200]
    ELSE IF update = "other" THEN [devices |-> devs, status |-> 400]
    ELSE [devices |-> [devs EXCEPT ![device_id] = update], status |-> 200]

GetDeviceDetail(user, device_id) ==
    /\ DevAnswer("detail", user, device_id,
                 get_device_detail(userDevices, user, device_id))
    /\ UNCHANGED <<userDevices, deviceStatus, tx>>
    /\ UNCHANGED notDevVars

UpdateDeviceStatus(user, device_id, update) ==
    /\ LET out == update_device_status(userDevices, deviceStatus, user,
                                       device_id, update)
       IN /\ deviceStatus' = out.devices
          /\ DevAnswer("status", user, device_id, out.status)
    /\ UNCHANGED <<userDevices, tx>>
    /\ UNCHANGED notDevVars

\* the batch of the calibration requests made here: one that calibrates
AccessBatches ==
    {<<[kind |-> "static", len |-> 100], [kind |-> "rotation", len |-> 200]>>}

\* user_devices as the calibration endpoint and as the device routes see it
InitAccess ==
    /\ CalInit /\ TurnIdle /\ MetricsIdle /\ CodesIdle /\ AuthIdle
    /\ LimiterIdle /\ IngestIdle /\ CacheIdle /\ RaceIdle /\ SkiIdle /\ DevInit
    /\ bindings = {<<row.user_id, row.device_id>> : row \in userDevices}

GetDeviceDetailAny ==
    \E u \in Users, d \in DeviceIds : GetDeviceDetail(u, d)

UpdateDeviceStatusAny ==
    \E u \in Users, d \in DeviceIds, update \in StatusUpdates :
       UpdateDeviceStatus(u, d, update)

StartCalibration == Receive("r1", AccessBatches)

NextAccess ==
    \/ GetDeviceDetailAny \/ UpdateDeviceStatusAny \/ SetPrimaryDeviceAny
    \/ StartCalibration \/ CalibrateBatch \/ CommitBatch

SpecAccess == InitAccess /\ [][NextAccess]_vars

\* user has no binding to the device device_id, which exists
Unbound(user, device_id) ==
    /\ device_id \in Devices
    /\ BindingsOf(userDevices, user, device_id) = {}
    /\ <<user, device_id>> \notin bindings

\* nothing stored changes in this step
NothingStored ==
    UNCHANGED <<userDevices, deviceStatus, bindings, calibrations,
                calibrationSamples, pending>>

\* C29: a user with no binding to a device gets 403 from device detail,
\* status update, set-primary and calibration start, and the request leaves
\* the device, every binding and every calibration record unchanged.
C29_UnboundForbidden ==
    [][/\ (lastDev' # lastDev
             /\ Unbound(lastDev'[1].user, lastDev'[1].device_id)) =>
               lastDev'[1].status = 403 /\ NothingStored
       /\ (request'["r1"] # request["r1"]
             /\ Unbound(request'["r1"][1].user,
                        request'["r1"][1].device_id)) =>
               /\ response'["r1"] = <<403>>
               /\ pc'["r1"] = "done"
               /\ NothingStored]_vars

\* the four routes have run: the owner's calibration is stored, the device's
\* status is changed, and the latest request, by a user with no binding, got
\* 403
C29_Witness ==
    /\ calibrations # {}
    /\ \E d \in Devices : deviceStatus[d] = "connected"
    /\ lastDev # <<>>
    /\ lastDev[1].status = 403
    /\ lastDev[1].op = "status"
    /\ BindingsOf(userDevices, lastDev[1].user, lastDev[1].device_id) = {}

\* ---------------------------------------------------------------------------
\* domains/auth: SessionRepository and SessionCache
\* ---------------------------------------------------------------------------

\* SessionCache.set_session: writes the key when the cache has a Redis client
\* and Redis answers; an error is swallowed
set_session(cache, use_client, fails, i, user) ==
    IF use_client /\ ~fails
      THEN [cache EXCEPT ![i] = <<[user_id |-> user, is_active |-> TRUE]>>]
      ELSE cache

\* SessionCache.get_session: the cached entry, none without a Redis client
get_session(cache, use_client, i) ==
    IF use_client THEN cache[i] ELSE <<>>

\* SessionCache.delete_session: deletes the key when the cache has a Redis
\* client and Redis answers; an error is swallowed
delete_session(cache, use_client, fails, i) ==
    IF use_client /\ ~fails THEN [cache EXCEPT ![i] = <<>>] ELSE cache

\* SessionCache.invalidate_user_sessions: scans the keys and deletes those of
\* the user
invalidate_user_sessions(cache, use_client, fails, user) ==
    IF use_client /\ ~fails
      THEN [i \in DOMAIN cache |->
              IF cache[i] # <<>> /\ cache[i][1].user_id = user
                THEN <<>> ELSE cache[i]]
      ELSE cache

\* what an invalidation leaves behind for the properties to read
Invalidated26(caller, user, ids, ok) ==
    lastInvalidate' = <<[caller |-> caller, user |-> user, ids |-> ids,
                         ok |-> ok]>>

\* SessionRepository.create_session, called by AuthService.login_with_code:
\* the row is committed, then cached
CreateSession(user, use_client, fails) ==
    /\ \E i \in SessionIds :
          /\ sessionRows[i] = <<>>
          /\ \A j \in SessionIds : j < i => sessionRows[j] # <<>>
          /\ sessionRows' = [sessionRows EXCEPT ![i] =
                <<[user_id |-> user, is_active |-> TRUE, expired |-> FALSE]>>]
          /\ sessionCache' = set_session(sessionCache, use_client, fails, i, user)
    /\ UNCHANGED lastInvalidate
    /\ UNCHANGED notCacheVars

\* SessionRepository.invalidate_session of a repository built with or without
\* a Redis client: only an active row is found by its token
InvalidateSession(caller, user, i, use_client, fails) ==
    /\ sessionRows[i] # <<>>
    /\ sessionRows[i][1].user_id = user
    /\ IF sessionRows[i][1].is_active
         THEN /\ sessionRows' = invalidate_session(sessionRows, i)
              /\ sessionCache' = delete_session(sessionCache, use_client, fails, i)
              /\ Invalidated26(caller, user, {i}, TRUE)
         ELSE /\ UNCHANGED <<sessionRows, sessionCache>>
              /\ Invalidated26(caller, user, {}, FALSE)
    /\ UNCHANGED notCacheVars

\* SessionRepository.invalidate_all_sessions
InvalidateAllSessions(caller, user, use_client, fails) ==
    /\ sessionRows' = invalidate_all_sessions(sessionRows, user)
    /\ sessionCache' = invalidate_user_sessions(sessionCache, use_client, fails, user)
    /\ Invalidated26(caller, user,
          {i \in SessionIds : /\ sessionRows[i] # <<>>
                              /\ sessionRows[i][1].user_id = user
                              /\ sessionRows[i][1].is_active}, TRUE)
    /\ UNCHANGED notCacheVars

\* AuthService.logout and AuthService.logout_all_sessions: the repository of
\* the service, which has the client the service was given
ServiceLogout ==
    \E user \in Users, i \in SessionIds, use_client \in BOOLEAN, fails \in BOOLEAN :
        InvalidateSession("service", user, i, use_client, fails)

ServiceLogoutAll ==
    \E user \in Users, use_client \in BOOLEAN, fails \in BOOLEAN :
        InvalidateAllSessions("service", user, use_client, fails)

\* POST /sessions/logout with a session_id of the caller, and POST
\* /sessions/logout-all: both build SessionRepository(session), without a client
RouteLogout ==
    \E user \in Users, i \in SessionIds :
        InvalidateSession("route", user, i, FALSE, FALSE)

RouteLogoutAll ==
    \E user \in Users : InvalidateAllSessions("route", user, FALSE, FALSE)

CreateSessionAny ==
    \E user \in Users, use_client \in BOOLEAN, fails \in BOOLEAN :
        CreateSession(user, use_client, fails)

\* the ttl of a cached entry runs out
CacheExpire ==
    /\ \E i \in SessionIds :
          /\ sessionCache[i] # <<>>
          /\ sessionCache' = [sessionCache EXCEPT ![i] = <<>>]
    /\ UNCHANGED <<sessionRows, lastInvalidate>>
    /\ UNCHANGED notCacheVars

CacheInit ==
    /\ sessionRows = [i \in SessionIds |-> <<>>]
    /\ sessionCache = [i \in SessionIds |-> <<>>]
    /\ lastInvalidate = <<>>

InitCache ==
    CalIdle /\ TurnIdle /\ MetricsIdle /\ CodesIdle /\ AuthIdle /\ LimiterIdle /\ IngestIdle
    /\ RaceIdle /\ SkiIdle /\ DevIdle /\ CacheInit

NextCache ==
    \/ CreateSessionAny
    \/ ServiceLogout
    \/ ServiceLogoutAll
    \/ RouteLogout
    \/ RouteLogoutAll
    \/ CacheExpire

SpecCache == InitCache /\ [][NextCache]_vars

\* a session the database marks inactive that a cache read still returns
Stale(i) ==
    /\ sessionRows[i] # <<>>
    /\ ~sessionRows[i][1].is_active
    /\ get_session(sessionCache, TRUE, i) # <<>>

\* C26: invalidating a session also removes it from the session cache: once
\* invalidate_session or invalidate_all_sessions has returned, through any
\* caller, a cache read never returns a session the database marks inactive
C26_NoStaleEntry == \A i \in SessionIds : ~Stale(i)

\* C26: the route logged a session out and the cache still answers with it
C26_StaleAfterRouteLogout ==
    /\ lastInvalidate # <<>>
    /\ lastInvalidate[1].caller = "route"
    /\ lastInvalidate[1].ok
    /\ \E i \in lastInvalidate[1].ids : Stale(i)

\* ---------------------------------------------------------------------------
\* ingest_imu.py, ingest_gps.py, ingest_barometer.py, ingest_metrics.py
\* ---------------------------------------------------------------------------

Kinds == {"imu", "gps", "barometer", "metrics"}

\* the samples of a request body, each by whether it fits the sample model
SampleBatches ==
    UNION {[1..n -> {"ok", "bad"}] : n \in 0..(MaxSamples + 1)}

AllOk(samples) == \A k \in DOMAIN samples : samples[k] = "ok"

\* what the handler receives as payload:
\*   gps, barometer   payload: XBatchRequest, so a body that does not fit is
\*                    answered 422 before the handler runs
\*   imu, metrics     payload: XBatchRequest | Any, so the framework hands
\*                    over either the parsed model or the body as it came
Payload(kind, form, samples) ==
    IF kind \in {"gps", "barometer"}
      THEN IF AllOk(samples) THEN "model" ELSE "422"
    ELSE IF form = "model" /\ AllOk(samples) THEN "model" ELSE "raw"

\* the entities the loop of a handler builds, one for each sample
BuiltRows(kind, user, session_id, device_id, samples, request_no) ==
    {[kind |-> kind, user_id |-> user, device_id |-> device_id,
      session_id |-> session_id, request |-> request_no, idx |-> k] :
        k \in DOMAIN samples}

\* a handler that adds its rows before it looks at the size of the batch
IngestBeforeSizeCheck(kind, form, user, session_id, device_id, samples, commit_ok, sessions, binds, request_no) ==
    IF Len(samples) > MaxSamples
      THEN [status |-> 413,
            rows |-> BuiltRows(kind, user, session_id, device_id, samples,
                               request_no)]
      ELSE [status |-> 400, rows |-> {}]

\* ingest_imu_batch, ingest_gps_batch, ingest_barometer_batch and
\* ingest_metrics_batch: the status and the rows committed
ingest_batch(kind, form, user, session_id, device_id, samples, commit_ok, sessions, binds, request_no) ==
    LET payload == Payload(kind, form, samples)
        none(st) == [status |-> st, rows |-> {}]
    IN IF payload = "422" THEN none(422)
       \* payload.device_id of a dict raises AttributeError
       ELSE IF payload = "raw" THEN none(500)
       ELSE IF Len(samples) = 0 THEN none(400)
       ELSE IF Len(samples) > MaxSamples THEN none(413)
       ELSE IF session_id \notin DOMAIN sessions \/ sessions[session_id] = <<>>
         THEN none(404)
       ELSE IF sessions[session_id][1].user_id # user THEN none(403)
       ELSE IF device_id \notin Devices THEN none(404)
       ELSE IF <<user, device_id>> \notin binds THEN none(403)
       \* imu and metrics ask isinstance(s, dict) of a parsed sample
       ELSE IF kind \in {"imu", "metrics"} THEN none(400)
       ELSE IF ~commit_ok THEN none(500)
       ELSE [status |-> 200,
             rows |-> BuiltRows(kind, user, session_id, device_id, samples,
                                request_no)]

\* POST /sessions/{session_id}/<kind>:batch
IngestBatch(kind, form, user, session_id, device_id, samples, commit_ok) ==
    /\ ingests < MaxIngests
    /\ ingests' = ingests + 1
    /\ LET out == ingest_batch(kind, form, user, session_id, device_id,
                               samples, commit_ok, skiSessions, bindings,
                               ingests + 1)
       IN /\ ingestRows' = ingestRows \cup out.rows
          /\ lastIngest' = <<[kind |-> kind, user |-> user,
                              session_id |-> session_id,
                              n |-> Len(samples), status |-> out.status]>>
    /\ UNCHANGED notIngVars

IngestBatchAny ==
    \E kind \in Kinds, user \in Users, session_id \in SkiIds \cup {"s9"},
       device_id \in DeviceIds, samples \in SampleBatches :
       \E form \in IF kind \in {"imu", "metrics"} THEN {"model", "raw"}
                   ELSE {"model"} :
          \E commit_ok \in
                IF ingest_batch(kind, form, user, session_id, device_id,
                                samples, TRUE, skiSessions, bindings,
                                0).status = 200
                  THEN BOOLEAN ELSE {TRUE} :
             IngestBatch(kind, form, user, session_id, device_id, samples,
                         commit_ok)

\* rows an earlier batch left in the tables
EarlierRows ==
    {[kind |-> "gps", user_id |-> "u2", device_id |-> "d2",
      session_id |-> "s2", request |-> 0, idx |-> 1]}

\* each user has started a session on their device; the first may be over
InitIngest ==
    /\ CalIdle /\ TurnIdle /\ MetricsIdle /\ CodesIdle /\ AuthIdle
    /\ LimiterIdle /\ CacheIdle /\ DevIdle /\ RaceIdle
    /\ \E st \in {"active", "completed"} :
          skiSessions =
             [id \in SkiIds |->
                <<[user_id |-> IF id = "s1" THEN "u1" ELSE "u2",
                   device_id |-> IF id = "s1" THEN "d1" ELSE "d2",
                   start_time |-> 0,
                   session_status |-> IF id = "s1" THEN st ELSE "active",
                   end_time |->
                      IF id = "s1" /\ st = "completed" THEN <<1>> ELSE <<>>,
                   duration_seconds |->
                      IF id = "s1" /\ st = "completed" THEN <<1>> ELSE <<>>]>>]
    /\ finished = [id \in SkiIds |-> 0]
    /\ lastSki = <<>>
    /\ ingestRows \in SUBSET EarlierRows
    /\ ingests = 0
    /\ lastIngest = <<>>

NextIngest == IngestBatchAny

SpecIngest == InitIngest /\ [][NextIngest]_vars

\* C28: batch ingest is all-or-nothing: a request that is rejected stores
\* none of its rows, and an accepted request stores exactly one row for each
\* sample it submitted, each with the caller's user_id and the session_id of
\* the request; the rows stored before stay
C28_AllOrNothing ==
    [][ingests' # ingests =>
         LET r == lastIngest'[1]
             new == ingestRows' \ ingestRows
         IN /\ ingestRows \subseteq ingestRows'
            /\ r.status # 200 => new = {}
            /\ r.status = 200 =>
                  /\ Cardinality(new) = r.n
                  /\ r.n > 0
                  /\ \A row \in new : /\ row.user_id = r.user
                                      /\ row.session_id = r.session_id
                                      /\ row.kind = r.kind]_vars

\* C28: a full batch was accepted and the table holds the rows it had before
\* and one row for each sample of the batch
C28_Witness ==
    /\ lastIngest # <<>>
    /\ lastIngest[1].status = 200
    /\ lastIngest[1].n = MaxSamples
    /\ EarlierRows \subseteq ingestRows
    /\ Cardinality(ingestRows) = Cardinality(EarlierRows) + MaxSamples

====
